---- MODULE Spec2Model ----
(***************************************************************************)
(* Time-interval alignment and merge engine of speakerdiart.               *)
(*                                                                         *)
(* Two implementations live in the repository and both are modelled:       *)
(*   impl = "legacy"  the function module src/merge.py                     *)
(*   impl = "engine"  the class module src/src/merge.py                    *)
(*                                                                         *)
(* A Python str is a sequence of one-character strings.  A time is an      *)
(* integer number of milliseconds (the float seconds of the code times     *)
(* 1000); float rounding is not modelled.  Python None in the "speakers"   *)
(* field is the empty set: the code only tests the field for truthiness.   *)
(*                                                                         *)
(* The audio pipeline of src/src/pipeline.py, with the performance tracker *)
(* and the system monitor of src/src/monitoring.py, is modelled after the  *)
(* merge engine it calls.                                                  *)
(***************************************************************************)
EXTENDS Integers, Sequences, FiniteSets, TLC

VARIABLES impl, speaker_labels, vtt_content, rttm_content, speakers, subtitles,
          output, raised, pc, time_text, seconds, mapped_with,
          monitoring, monitor_thread, loops, cpu_samples, memory_samples,
          call, current_metrics, stage_start_time, metrics_file,
          result, last_result, at, calls

\* the state of the merge engine and of its callers
merge_vars == <<impl, speaker_labels, vtt_content, rttm_content, speakers, subtitles,
                output, raised, pc, time_text, seconds, mapped_with>>

\* the state of a SystemMonitor and of the threads it started
monitor_vars == <<monitoring, monitor_thread, loops, cpu_samples, memory_samples,
                  call>>

\* the state of a ProcessingPipeline and of its PerformanceTracker
pipeline_vars == <<current_metrics, stage_start_time, metrics_file,
                   result, last_result, at, calls>>

vars == <<merge_vars, monitor_vars, pipeline_vars>>

(***************************************************************************)
(* Bounds of the model.                                                    *)
(***************************************************************************)
\* longest subtitle document, in blocks
MaxBlocks == 3
\* longest turn list handed to the assigner
MaxTurns == 2
\* times of the merge pipeline range over 0..MaxTime seconds
MaxTime == 2
\* longest speaker-timing document, in lines
MaxLines == 3
\* most colon-separated fields of a text handed to the Time Parser
MaxFields == 4
\* most runs of the assigner over one utterance list
MaxRuns == 3
\* most calls of process_audio on one pipeline
MaxCalls == 2
\* most monitor threads one SystemMonitor starts
MaxLoops == 2
\* longest list of samples
MaxSamples == 2

(***************************************************************************)
(* Python str and list primitives.                                         *)
(***************************************************************************)
None == {}

Whitespace == {" ", "\n", "\t"}

DigitChars == <<"0", "1", "2", "3", "4", "5", "6", "7", "8", "9">>

IsDigit(c) == \E i \in 1..10 : DigitChars[i] = c

DigitVal(c) == (CHOOSE i \in 1..10 : DigitChars[i] = c) - 1

RECURSIVE lstrip(_)
lstrip(s) ==
    IF s = <<>> THEN s
    ELSE IF Head(s) \in Whitespace THEN lstrip(Tail(s)) ELSE s

RECURSIVE rstrip(_)
rstrip(s) ==
    IF s = <<>> THEN s
    ELSE IF s[Len(s)] \in Whitespace THEN rstrip(SubSeq(s, 1, Len(s) - 1)) ELSE s

\* str.strip()
strip(s) == rstrip(lstrip(s))

\* str.startswith(p)
startswith(s, p) == Len(s) >= Len(p) /\ SubSeq(s, 1, Len(p)) = p

\* str.find(sub) + 1: the 1-based index of the first occurrence, 0 when absent
find(s, sub) ==
    LET hits == {i \in 1..(Len(s) - Len(sub) + 1) : SubSeq(s, i, i + Len(sub) - 1) = sub}
    IN IF hits = {} THEN 0 ELSE CHOOSE i \in hits : \A j \in hits : i <= j

\* sub in s
contains(s, sub) == find(s, sub) # 0

\* str.split(sep), sep not empty
RECURSIVE split(_, _)
split(s, sep) ==
    LET i == find(s, sep)
    IN IF i = 0 THEN <<s>>
       ELSE <<SubSeq(s, 1, i - 1)>> \o split(SubSeq(s, i + Len(sep), Len(s)), sep)

\* str.split(): runs of whitespace separate the fields, no empty field
RECURSIVE split_ws(_)
split_ws(s) ==
    LET t == lstrip(s)
        stops == {i \in 1..Len(t) : t[i] \in Whitespace}
        k == IF stops = {} THEN Len(t) + 1 ELSE CHOOSE i \in stops : \A j \in stops : i <= j
    IN IF t = <<>> THEN <<>>
       ELSE <<SubSeq(t, 1, k - 1)>> \o split_ws(SubSeq(t, k, Len(t)))

\* str.splitlines() for "\n" line ends: no empty last line
splitlines(s) ==
    LET p == split(s, <<"\n">>)
    IN IF p[Len(p)] = <<>> THEN SubSeq(p, 1, Len(p) - 1) ELSE p

\* sep.join(list)
RECURSIVE join(_, _)
join(list, sep) ==
    IF list = <<>> THEN <<>>
    ELSE IF Len(list) = 1 THEN list[1]
    ELSE list[1] \o sep \o join(Tail(list), sep)

RECURSIVE DigitsValue(_)
DigitsValue(s) ==
    IF s = <<>> THEN 0 ELSE 10 * DigitsValue(SubSeq(s, 1, Len(s) - 1)) + DigitVal(s[Len(s)])

AllDigits(s) == \A i \in 1..Len(s) : IsDigit(s[i])

Unsigned(s) == IF s # <<>> /\ Head(s) \in {"+", "-"} THEN Tail(s) ELSE s

Sign(s) == IF s # <<>> /\ Head(s) = "-" THEN -1 ELSE 1

\* int(s): surrounding whitespace, an optional sign, one or more digits;
\* anything else raises ValueError
int(s) ==
    LET u == Unsigned(strip(s))
    IN IF u # <<>> /\ AllDigits(u)
       THEN [raised |-> "none", value |-> Sign(strip(s)) * DigitsValue(u)]
       ELSE [raised |-> "ValueError", value |-> 0]

\* the first three fraction digits as milliseconds
Millis(f) ==
    LET d(i) == IF i <= Len(f) THEN DigitVal(f[i]) ELSE 0
    IN 100 * d(1) + 10 * d(2) + d(3)

\* float(s) in milliseconds: surrounding whitespace, an optional sign, digits
\* with at most one point and at least one digit; anything else raises
\* ValueError (exponents, inf, nan and underscores are outside the inputs
\* the model draws)
float(s) ==
    LET u == Unsigned(strip(s))
        dot == find(u, <<".">>)
        ip == IF dot = 0 THEN u ELSE SubSeq(u, 1, dot - 1)
        fp == IF dot = 0 THEN <<>> ELSE SubSeq(u, dot + 1, Len(u))
    IN IF AllDigits(ip) /\ AllDigits(fp) /\ Len(ip) + Len(fp) > 0
       THEN [raised |-> "none",
             value |-> Sign(strip(s)) * (1000 * DigitsValue(ip) + Millis(fp))]
       ELSE [raised |-> "ValueError", value |-> 0]

max(a, b) == IF a >= b THEN a ELSE b

min(a, b) == IF a <= b THEN a ELSE b

(***************************************************************************)
(* Time Parser.                                                            *)
(***************************************************************************)
\* HmsValue with the hours counted as minutes
HmsValue_hours_as_minutes(h, m, s) ==
    IF int(h).raised # "none" \/ int(m).raised # "none" \/ float(s).raised # "none"
    THEN [raised |-> "ValueError", value |-> 0]
    ELSE [raised |-> "none",
          value |-> int(h).value * 60000 + int(m).value * 60000 + float(s).value]

\* int(h) * 3600 + int(m) * 60 + float(s), the first failure raising
HmsValue(h, m, s) ==
    IF int(h).raised # "none" \/ int(m).raised # "none" \/ float(s).raised # "none"
    THEN [raised |-> "ValueError", value |-> 0]
    ELSE [raised |-> "none",
          value |-> int(h).value * 3600000 + int(m).value * 60000 + float(s).value]

\* src/merge.py
convert_to_seconds(time_str) ==
    LET parts == split(time_str, <<":">>)
    IN IF Len(parts) = 3 THEN HmsValue(parts[1], parts[2], parts[3])
       ELSE IF Len(parts) = 2 THEN HmsValue(<<"0">>, parts[1], parts[2])
       ELSE [raised |-> "ValueError", value |-> 0]

\* src/src/merge.py: every ValueError becomes a FileFormatError
engine_convert_to_seconds(time_str) ==
    LET parts == split(strip(time_str), <<":">>)
        r == IF Len(parts) = 3 THEN HmsValue(parts[1], parts[2], parts[3])
             ELSE IF Len(parts) = 2 THEN HmsValue(<<"0">>, parts[1], parts[2])
             ELSE [raised |-> "ValueError", value |-> 0]
    IN IF r.raised = "none" THEN r ELSE [raised |-> "FileFormatError", value |-> 0]

(***************************************************************************)
(* Transcript Segment Parser.                                              *)
(***************************************************************************)
NL == <<"\n">>

NLNL == <<"\n", "\n">>

\* "-->"
ARROW == <<"-", "-", ">">>

\* " --> "
SEPARATOR == <<" ", "-", "-", ">", " ">>

WEBVTT == <<"W", "E", "B", "V", "T", "T">>

\* the dict appended for one entry
Subtitle(start, end, text) ==
    [start |-> start, end |-> end, text |-> text, speakers |-> None]

\* src/merge.py, the body of the loop over entries: what one entry does.
\* The unpacking of times.split(" --> ") into two names raises ValueError
\* unless there are exactly two pieces.
parse_vtt_entry(entry) ==
    LET parts == split(entry, NL)
        times == parts[1]
        text == IF Len(parts) > 1 THEN join(Tail(parts), NL) ELSE <<>>
        ts == split(times, SEPARATOR)
        st == convert_to_seconds(strip(ts[1]))
        en == convert_to_seconds(strip(ts[2]))
    IN IF ~contains(entry, ARROW) THEN [raised |-> "none", value |-> <<>>]
       ELSE IF Len(ts) # 2 THEN [raised |-> "ValueError", value |-> <<>>]
       ELSE IF st.raised # "none" THEN [raised |-> st.raised, value |-> <<>>]
       ELSE IF en.raised # "none" THEN [raised |-> en.raised, value |-> <<>>]
       ELSE [raised |-> "none", value |-> <<Subtitle(st.value, en.value, strip(text))>>]

\* an exception of one entry ends the loop and leaves the function
RECURSIVE parse_vtt_entries(_, _)
parse_vtt_entries(entries, acc) ==
    IF entries = <<>> THEN [raised |-> "none", value |-> acc]
    ELSE LET r == parse_vtt_entry(Head(entries))
         IN IF r.raised # "none" THEN [raised |-> r.raised, value |-> <<>>]
            ELSE parse_vtt_entries(Tail(entries), acc \o r.value)

\* src/merge.py
parse_vtt(content) == parse_vtt_entries(split(content, NLNL), <<>>)

\* src/src/merge.py, the body of the loop over entries: every exception
\* of the try block is caught and the entry skipped
VTTParser_parse_entry(raw) ==
    LET entry == strip(raw)
        lines == split(entry, NL)
        time_line == lines[1]
        ts == split(time_line, SEPARATOR)
        st == engine_convert_to_seconds(strip(ts[1]))
        en == engine_convert_to_seconds(strip(ts[2]))
        text_lines == IF Len(lines) > 1 THEN Tail(lines) ELSE <<>>
        text == strip(join(text_lines, NL))
    IN IF entry = <<>> \/ entry = WEBVTT THEN <<>>
       ELSE IF ~contains(entry, ARROW) THEN <<>>
       ELSE IF ~contains(time_line, ARROW) THEN <<>>
       ELSE IF Len(ts) # 2 THEN <<>>
       ELSE IF st.raised # "none" \/ en.raised # "none" THEN <<>>
       ELSE IF text # <<>> THEN <<Subtitle(st.value, en.value, text)>>
       ELSE <<>>

RECURSIVE VTTParser_parse_entries(_)
VTTParser_parse_entries(entries) ==
    IF entries = <<>> THEN <<>>
    ELSE VTTParser_parse_entry(Head(entries)) \o VTTParser_parse_entries(Tail(entries))

\* VTTParser_parse with the first block taken for the header, whatever it is
VTTParser_parse_skip_first(content) ==
    IF strip(content) = <<>> THEN [raised |-> "none", value |-> <<>>]
    ELSE [raised |-> "none",
          value |-> VTTParser_parse_entries(Tail(split(strip(content), NLNL)))]

\* src/src/merge.py
VTTParser_parse(content) ==
    IF strip(content) = <<>> THEN [raised |-> "none", value |-> <<>>]
    ELSE [raised |-> "none",
          value |-> VTTParser_parse_entries(split(strip(content), NLNL))]

(***************************************************************************)
(* Speaker Turn Parser.                                                    *)
(***************************************************************************)
SPEAKER == <<"S", "P", "E", "A", "K", "E", "R">>

\* the dict appended for one line
Turn(start, end, speaker) == [start |-> start, end |-> end, speaker |-> speaker]

\* src/merge.py, the body of the loop over lines
parse_rttm_line(raw) ==
    LET line == strip(raw)
        parts == split_ws(line)
        start_time == float(parts[4])
        duration == float(parts[5])
    IN IF line = <<>> \/ startswith(line, <<"#">>) THEN [raised |-> "none", value |-> <<>>]
       ELSE IF Len(parts) < 8 THEN [raised |-> "none", value |-> <<>>]
       ELSE IF start_time.raised # "none" THEN [raised |-> "ValueError", value |-> <<>>]
       ELSE IF duration.raised # "none" THEN [raised |-> "ValueError", value |-> <<>>]
       ELSE [raised |-> "none",
             value |-> <<Turn(start_time.value, start_time.value + duration.value, parts[8])>>]

RECURSIVE parse_rttm_lines(_, _)
parse_rttm_lines(lines, acc) ==
    IF lines = <<>> THEN [raised |-> "none", value |-> acc]
    ELSE LET r == parse_rttm_line(Head(lines))
         IN IF r.raised # "none" THEN [raised |-> r.raised, value |-> <<>>]
            ELSE parse_rttm_lines(Tail(lines), acc \o r.value)

\* src/merge.py
parse_rttm(content) == parse_rttm_lines(splitlines(content), <<>>)

\* RTTMParser_parse_line with the fields counted from 0: start, duration
\* and speaker read from fields 3, 4 and 7
RTTMParser_parse_line_shifted(raw) ==
    LET line == strip(raw)
        parts == split_ws(line)
        start_time == float(parts[3])
        duration == float(parts[4])
    IN IF line = <<>> \/ startswith(line, <<"#">>) THEN <<>>
       ELSE IF Len(parts) < 8 THEN <<>>
       ELSE IF parts[1] # SPEAKER THEN <<>>
       ELSE IF start_time.raised # "none" \/ duration.raised # "none" THEN <<>>
       ELSE <<Turn(start_time.value, start_time.value + duration.value, parts[7])>>

\* src/src/merge.py, the body of the loop over lines: ValueError and
\* IndexError are caught and the line skipped
RTTMParser_parse_line(raw) ==
    LET line == strip(raw)
        parts == split_ws(line)
        start_time == float(parts[4])
        duration == float(parts[5])
    IN IF line = <<>> \/ startswith(line, <<"#">>) THEN <<>>
       ELSE IF Len(parts) < 8 THEN <<>>
       ELSE IF parts[1] # SPEAKER THEN <<>>
       ELSE IF start_time.raised # "none" \/ duration.raised # "none" THEN <<>>
       ELSE <<Turn(start_time.value, start_time.value + duration.value, parts[8])>>

RECURSIVE RTTMParser_parse_lines(_)
RTTMParser_parse_lines(lines) ==
    IF lines = <<>> THEN <<>>
    ELSE RTTMParser_parse_line(Head(lines)) \o RTTMParser_parse_lines(Tail(lines))

\* src/src/merge.py
RTTMParser_parse(content) ==
    IF strip(content) = <<>> THEN [raised |-> "none", value |-> <<>>]
    ELSE [raised |-> "none",
          value |-> RTTMParser_parse_lines(split(strip(content), NL))]

(***************************************************************************)
(* Overlap Assigner.                                                       *)
(***************************************************************************)
\* max_overlap_speaker = None; the code only tests the name for truthiness,
\* which the empty str shares with None
NoSpeaker == <<>>

\* overlap_duration without the clamp at 0
overlap_duration_unclamped(subtitle, speaker) ==
    min(subtitle.end, speaker.end) - max(subtitle.start, speaker.start)

\* max(0.0, min(subtitle.end, speaker.end) - max(subtitle.start, speaker.start))
overlap_duration(subtitle, speaker) ==
    max(0, min(subtitle.end, speaker.end) - max(subtitle.start, speaker.start))

\* max_overlap with the running maximum never raised: every overlapping turn
\* replaces the winner
RECURSIVE max_overlap_stale(_, _, _)
max_overlap_stale(subtitle, list, best) ==
    IF list = <<>> THEN best
    ELSE LET d == overlap_duration(subtitle, Head(list))
         IN max_overlap_stale(subtitle, Tail(list),
                              IF d > best.duration
                              THEN [speaker |-> Head(list).speaker, duration |-> best.duration]
                              ELSE best)

\* max_overlap with >= for >: among equal positive overlaps the last turn wins
RECURSIVE max_overlap_last(_, _, _)
max_overlap_last(subtitle, list, best) ==
    IF list = <<>> THEN best
    ELSE LET d == overlap_duration(subtitle, Head(list))
         IN max_overlap_last(subtitle, Tail(list),
                             IF d >= best.duration /\ d > 0
                             THEN [speaker |-> Head(list).speaker, duration |-> d]
                             ELSE best)

\* max_overlap with the first overlapping turn kept, whatever comes after
RECURSIVE max_overlap_first(_, _, _)
max_overlap_first(subtitle, list, best) ==
    IF list = <<>> THEN best
    ELSE LET d == overlap_duration(subtitle, Head(list))
         IN max_overlap_first(subtitle, Tail(list),
                              IF d > 0 /\ best.speaker = NoSpeaker
                              THEN [speaker |-> Head(list).speaker, duration |-> d]
                              ELSE best)

\* the inner loop over speakers: the pair (max_overlap_speaker,
\* max_overlap_duration) after the turns of list
RECURSIVE max_overlap(_, _, _)
max_overlap(subtitle, list, best) ==
    IF list = <<>> THEN best
    ELSE LET d == overlap_duration(subtitle, Head(list))
         IN max_overlap(subtitle, Tail(list),
                        IF d > best.duration
                        THEN [speaker |-> Head(list).speaker, duration |-> d]
                        ELSE best)

max_overlap_speaker(subtitle, list) ==
    max_overlap(subtitle, list, [speaker |-> NoSpeaker, duration |-> 0]).speaker

\* map_speakers_to_subtitles with a winner clearing a field that is set
map_speakers_to_subtitles_toggle(subs, list) ==
    [i \in 1..Len(subs) |->
        IF max_overlap_speaker(subs[i], list) # NoSpeaker
        THEN [subs[i] EXCEPT !.speakers =
                 IF subs[i].speakers = None THEN {max_overlap_speaker(subs[i], list)} ELSE None]
        ELSE subs[i]]

\* src/merge.py: a subtitle without a winner keeps its field as it was
map_speakers_to_subtitles(subs, list) ==
    [i \in 1..Len(subs) |->
        IF max_overlap_speaker(subs[i], list) # NoSpeaker
        THEN [subs[i] EXCEPT !.speakers = {max_overlap_speaker(subs[i], list)}]
        ELSE subs[i]]

\* SpeakerMapper_map_speakers_to_subtitles with >= for >: the last of the
\* turns of largest overlap wins
SpeakerMapper_map_speakers_to_subtitles_last_wins(subs, list) ==
    IF list = <<>> THEN subs
    ELSE LET winner(sub) ==
                 max_overlap_last(sub, list, [speaker |-> NoSpeaker, duration |-> 0]).speaker
         IN [i \in 1..Len(subs) |->
                IF winner(subs[i]) # NoSpeaker
                THEN [subs[i] EXCEPT !.speakers = {winner(subs[i])}]
                ELSE [subs[i] EXCEPT !.speakers = None]]

\* SpeakerMapper_map_speakers_to_subtitles with the subtitles without a
\* winner removed from the list
SpeakerMapper_map_speakers_to_subtitles_dropping(subs, list) ==
    IF list = <<>> THEN subs
    ELSE LET kept == SelectSeq(subs, LAMBDA sub : max_overlap_speaker(sub, list) # NoSpeaker)
         IN [i \in 1..Len(kept) |->
                [kept[i] EXCEPT !.speakers = {max_overlap_speaker(kept[i], list)}]]

\* src/src/merge.py: returns at once on an empty turn list, and resets the
\* field of a subtitle without a winner to None
SpeakerMapper_map_speakers_to_subtitles(subs, list) ==
    IF list = <<>> THEN subs
    ELSE [i \in 1..Len(subs) |->
            IF max_overlap_speaker(subs[i], list) # NoSpeaker
            THEN [subs[i] EXCEPT !.speakers = {max_overlap_speaker(subs[i], list)}]
            ELSE [subs[i] EXCEPT !.speakers = None]]

(***************************************************************************)
(* Renderer.                                                               *)
(***************************************************************************)
\* list(speakers)[0] of a one-element set
first_speaker(set) == CHOOSE x \in set : TRUE

\* f"[{label}]"
marker(label) == <<"[">> \o label \o <<"]">>

\* format_lines with the cursor cleared by an utterance without speaker
RECURSIVE format_lines_reset(_, _)
format_lines_reset(subs, current_speaker) ==
    IF subs = <<>> THEN <<>>
    ELSE LET sub == Head(subs)
             changes == sub.speakers # None /\ first_speaker(sub.speakers) # current_speaker
             cursor == IF sub.speakers # None THEN first_speaker(sub.speakers) ELSE NoSpeaker
         IN (IF changes THEN <<marker(cursor)>> ELSE <<>>)
            \o (IF sub.text # <<>> THEN <<sub.text>> ELSE <<>>)
            \o format_lines_reset(Tail(subs), cursor)

\* format_lines with the cursor never moved: a marker for every assigned
\* utterance
RECURSIVE format_lines_no_cursor(_, _)
format_lines_no_cursor(subs, current_speaker) ==
    IF subs = <<>> THEN <<>>
    ELSE LET sub == Head(subs)
             changes == sub.speakers # None /\ first_speaker(sub.speakers) # current_speaker
         IN (IF changes THEN <<marker(first_speaker(sub.speakers))>> ELSE <<>>)
            \o (IF sub.text # <<>> THEN <<sub.text>> ELSE <<>>)
            \o format_lines_no_cursor(Tail(subs), current_speaker)

\* src/merge.py, the loop: the lines appended from subs on, the cursor
\* being current_speaker
RECURSIVE format_lines(_, _)
format_lines(subs, current_speaker) ==
    IF subs = <<>> THEN <<>>
    ELSE LET sub == Head(subs)
             changes == sub.speakers # None /\ first_speaker(sub.speakers) # current_speaker
             cursor == IF changes THEN first_speaker(sub.speakers) ELSE current_speaker
         IN (IF changes THEN <<marker(cursor)>> ELSE <<>>)
            \o (IF sub.text # <<>> THEN <<sub.text>> ELSE <<>>)
            \o format_lines(Tail(subs), cursor)

\* src/merge.py
format_output(subs) == join(format_lines(subs, NoSpeaker), NL)

\* speaker_labels.get(speaker, speaker)
display_label(labels, speaker) ==
    IF speaker \in DOMAIN labels THEN labels[speaker] ELSE speaker

\* OutputFormatter_format_lines with the text appended inside the speaker
\* branch: an utterance without speaker loses its text
RECURSIVE OutputFormatter_format_lines_nested(_, _, _)
OutputFormatter_format_lines_nested(subs, labels, current_speaker) ==
    IF subs = <<>> THEN <<>>
    ELSE LET sub == Head(subs)
             speaker == IF sub.speakers # None THEN first_speaker(sub.speakers) ELSE NoSpeaker
             changes == speaker # NoSpeaker /\ speaker # current_speaker
             cursor == IF changes THEN speaker ELSE current_speaker
             text == strip(sub.text)
         IN (IF changes THEN <<marker(display_label(labels, speaker))>> ELSE <<>>)
            \o (IF text # <<>> /\ speaker # NoSpeaker THEN <<text>> ELSE <<>>)
            \o OutputFormatter_format_lines_nested(Tail(subs), labels, cursor)

\* src/src/merge.py, the loop
RECURSIVE OutputFormatter_format_lines(_, _, _)
OutputFormatter_format_lines(subs, labels, current_speaker) ==
    IF subs = <<>> THEN <<>>
    ELSE LET sub == Head(subs)
             speaker == IF sub.speakers # None THEN first_speaker(sub.speakers) ELSE NoSpeaker
             changes == speaker # NoSpeaker /\ speaker # current_speaker
             cursor == IF changes THEN speaker ELSE current_speaker
             text == strip(sub.text)
         IN (IF changes THEN <<marker(display_label(labels, speaker))>> ELSE <<>>)
            \o (IF text # <<>> THEN <<text>> ELSE <<>>)
            \o OutputFormatter_format_lines(Tail(subs), labels, cursor)

\* src/src/merge.py, use_custom_labels = True as every caller passes
OutputFormatter_format_output(subs, labels) ==
    IF subs = <<>> THEN <<>>
    ELSE join(OutputFormatter_format_lines(subs, labels, NoSpeaker), NL)

(***************************************************************************)
(* Inputs.                                                                 *)
(***************************************************************************)
Impls == {"legacy", "engine"}

SpeakerIds == {<<"S", "0">>, <<"S", "1">>}

SeqsUpTo(S, n) == UNION {[1..k -> S] : k \in 0..n}

\* "00:0n", n below 10
Timestamp(n) == <<"0", "0", ":", "0", DigitChars[n + 1]>>

\* a block: the timestamp line and what follows it
Entry(s, e, rest) == Timestamp(s) \o SEPARATOR \o Timestamp(e) \o rest

Letters == <<"a", "b", "c", "d", "e", "f">>

\* the lines after the timestamp line of the i-th block: a text of its own,
\* a whitespace-only line, or none
Rest(i, kind) ==
    IF kind = "text" THEN NL \o <<Letters[i]>>
    ELSE IF kind = "blank" THEN NL \o <<" ">>
    ELSE <<>>

Ranges == {r \in (0..MaxTime) \X (0..MaxTime) : r[1] < r[2]}

\* turns may have no duration
TurnPool ==
    {Turn(1000 * s, 1000 * e, id) : <<s, e, id>> \in
        {x \in (0..MaxTime) \X (0..MaxTime) \X SpeakerIds : x[1] <= x[2]}}

TurnLists == SeqsUpTo(TurnPool, MaxTurns)

\* one utterance, to be set against every turn list
AssignDocs == {Entry(r[1], r[2], Rest(1, "text")) : r \in Ranges}

\* documents of blocks one second long, some without text, to be set against
\* lists of turns one second long; the last slot has no turn
Slots == {<<0, 1>>, <<1, 2>>, <<2, 3>>}

TurnSlots == {<<0, 1>>, <<1, 2>>}

RenderShapes == Slots \X {"text", "blank"}

RenderDocs ==
    UNION {{join([i \in 1..k |-> Entry(f[i][1][1], f[i][1][2], Rest(i, f[i][2]))], NLNL) :
                f \in [1..k -> RenderShapes]} : k \in 0..MaxBlocks}

SlotTurns == {Turn(1000 * sl[1], 1000 * sl[2], id) : <<sl, id>> \in TurnSlots \X SpeakerIds}

RenderTurnLists == {<<>>} \cup {<<t>> : t \in SlotTurns} \cup (SlotTurns \X SlotTurns)

\* output.speaker_labels of the configuration: absent, or one custom label
NoLabels == [x \in {} |-> x]

LabelMaps == {NoLabels, [x \in {<<"S", "0">>} |-> <<"A", "n", "n">>]}

(***************************************************************************)
(* A ProcessingPipeline after __init__, with its PerformanceTracker and    *)
(* the SystemMonitor of the tracker.  An Optional value is the set of what *)
(* it holds: None is the empty set.                                        *)
(***************************************************************************)
Constructed ==
    /\ monitoring = FALSE
    /\ monitor_thread = None
    /\ loops = <<>>
    /\ cpu_samples = <<>>
    /\ memory_samples = <<>>
    /\ call = "none"
    /\ current_metrics = None
    /\ stage_start_time = None
    /\ metrics_file = <<>>
    /\ result = None
    /\ last_result = None
    /\ at = "idle"
    /\ calls = 0

(***************************************************************************)
(* The merge pipeline: parse the subtitle document, assign, render.        *)
(***************************************************************************)
Init ==
    /\ impl \in Impls
    /\ \/ /\ vtt_content \in AssignDocs
          /\ speakers \in TurnLists
          /\ speaker_labels = NoLabels
       \/ /\ vtt_content \in RenderDocs
          /\ speakers \in RenderTurnLists
          /\ speaker_labels \in (IF impl = "legacy" THEN {NoLabels} ELSE LabelMaps)
    /\ rttm_content = <<>>
    /\ subtitles = <<>>
    /\ output = <<>>
    /\ raised = "none"
    /\ pc = "parse_vtt"
    /\ time_text = <<>>
    /\ seconds = 0
    /\ mapped_with = <<>>
    /\ Constructed

\* the end of a parse: its list, or the exception that left it
Parsed(r, next) ==
    IF r.raised = "none"
    THEN /\ subtitles' = r.value
         /\ raised' = raised
         /\ pc' = next
    ELSE /\ subtitles' = subtitles
         /\ raised' = r.raised
         /\ pc' = "failed"

Call_parse_vtt ==
    /\ pc = "parse_vtt"
    /\ impl = "legacy"
    /\ Parsed(parse_vtt(vtt_content), "map")
    /\ UNCHANGED <<time_text, seconds, mapped_with>>
    /\ UNCHANGED <<monitor_vars, pipeline_vars>>
    /\ UNCHANGED <<impl, speaker_labels, vtt_content, rttm_content, speakers, output>>

Call_VTTParser_parse ==
    /\ pc = "parse_vtt"
    /\ impl = "engine"
    /\ Parsed(VTTParser_parse(vtt_content), "map")
    /\ UNCHANGED <<time_text, seconds, mapped_with>>
    /\ UNCHANGED <<monitor_vars, pipeline_vars>>
    /\ UNCHANGED <<impl, speaker_labels, vtt_content, rttm_content, speakers, output>>

Call_map_speakers_to_subtitles ==
    /\ pc = "map"
    /\ impl = "legacy"
    /\ subtitles' = map_speakers_to_subtitles(subtitles, speakers)
    /\ mapped_with' = Append(mapped_with, speakers)
    /\ pc' = "format"
    /\ UNCHANGED <<time_text, seconds>>
    /\ UNCHANGED <<monitor_vars, pipeline_vars>>
    /\ UNCHANGED <<impl, speaker_labels, vtt_content, rttm_content, speakers, output, raised>>

Call_SpeakerMapper_map_speakers_to_subtitles ==
    /\ pc = "map"
    /\ impl = "engine"
    /\ subtitles' = SpeakerMapper_map_speakers_to_subtitles(subtitles, speakers)
    /\ mapped_with' = Append(mapped_with, speakers)
    /\ pc' = "format"
    /\ UNCHANGED <<time_text, seconds>>
    /\ UNCHANGED <<monitor_vars, pipeline_vars>>
    /\ UNCHANGED <<impl, speaker_labels, vtt_content, rttm_content, speakers, output, raised>>

Call_format_output ==
    /\ pc = "format"
    /\ impl = "legacy"
    /\ output' = format_output(subtitles)
    /\ pc' = "done"
    /\ UNCHANGED <<time_text, seconds, mapped_with>>
    /\ UNCHANGED <<monitor_vars, pipeline_vars>>
    /\ UNCHANGED <<impl, speaker_labels, vtt_content, rttm_content, speakers, subtitles, raised>>

Call_OutputFormatter_format_output ==
    /\ pc = "format"
    /\ impl = "engine"
    /\ output' = OutputFormatter_format_output(subtitles, speaker_labels)
    /\ pc' = "done"
    /\ UNCHANGED <<time_text, seconds, mapped_with>>
    /\ UNCHANGED <<monitor_vars, pipeline_vars>>
    /\ UNCHANGED <<impl, speaker_labels, vtt_content, rttm_content, speakers, subtitles, raised>>

Next ==
    \/ Call_parse_vtt
    \/ Call_VTTParser_parse
    \/ Call_map_speakers_to_subtitles
    \/ Call_SpeakerMapper_map_speakers_to_subtitles
    \/ Call_format_output
    \/ Call_OutputFormatter_format_output

Spec == Init /\ [][Next]_vars

(***************************************************************************)
(* The Transcript Segment Parser alone, on documents with blocks of every  *)
(* shape: good entries, entries without text, entries with a bad           *)
(* timestamp, notes, the header.                                           *)
(***************************************************************************)
BlockShapes ==
    {"entry", "hours", "lines", "blank", "bare", "badstart", "badend", "note",
     "header", "tight", "late"}

BadStamp == <<"0", "x", ":", "0", "1">>

\* the i-th block of a document, of the given shape
Block(i, shape) ==
    LET text == <<Letters[i]>>
    IN CASE shape = "entry" -> Entry(1, 2, NL \o text)
         [] shape = "hours" ->
              <<"0", "0", ":">> \o Timestamp(0) \o SEPARATOR \o <<"0", "0", ":">>
              \o Timestamp(1) \o <<".", "5">> \o NL \o text
         [] shape = "lines" -> Entry(2, 3, NL \o text \o NL \o <<"z">>)
         [] shape = "blank" -> Entry(1, 2, NL \o <<" ">>)
         [] shape = "bare" -> Entry(1, 2, <<>>)
         [] shape = "badstart" -> BadStamp \o SEPARATOR \o Timestamp(2) \o NL \o text
         [] shape = "badend" -> Timestamp(1) \o SEPARATOR \o BadStamp \o NL \o text
         [] shape = "note" -> text
         [] shape = "header" -> WEBVTT
         [] shape = "tight" -> Timestamp(1) \o ARROW \o Timestamp(2) \o NL \o text
         [] shape = "late" -> text \o NL \o Entry(1, 2, <<>>)

\* documents with and without a final line end
ParseDocs ==
    UNION {{join([i \in 1..k |-> Block(i, f[i])], NLNL) \o tail :
                f \in [1..k -> BlockShapes], tail \in {<<>>, NL}} : k \in 0..MaxBlocks}

InitVtt ==
    /\ impl \in Impls
    /\ vtt_content \in ParseDocs
    /\ speaker_labels = NoLabels
    /\ speakers = <<>>
    /\ rttm_content = <<>>
    /\ subtitles = <<>>
    /\ output = <<>>
    /\ raised = "none"
    /\ pc = "parse_vtt"
    /\ time_text = <<>>
    /\ seconds = 0
    /\ mapped_with = <<>>
    /\ Constructed

NextVtt ==
    \/ Call_parse_vtt
    \/ Call_VTTParser_parse

SpecVtt == InitVtt /\ [][NextVtt]_vars

(***************************************************************************)
(* The Speaker Turn Parser alone.                                          *)
(***************************************************************************)
LineShapes ==
    {"turn0", "turn1", "eight", "opaque", "badstart", "baddur", "short", "comment", "blank",
     "other"}

NA == <<"<", "N", "A", ">">>

NotANumber == <<"n", "o", "t", "a", "n", "u", "m", "b", "e", "r">>

Fields(shape) ==
    CASE shape = "turn0" ->
           <<SPEAKER, <<"x">>, <<"1">>, <<"0", ".", "0">>, <<"1", ".", "0">>, NA, NA, <<"S", "0">>, NA>>
      [] shape = "turn1" ->
           <<SPEAKER, <<"x">>, <<"1">>, <<"1", ".", "5">>, <<"2">>, NA, NA, <<"S", "1">>, NA>>
      [] shape = "eight" ->
           <<SPEAKER, <<"x">>, <<"1">>, <<"3">>, <<"0", ".", "2", "5">>, NA, NA, <<"S", "0">>>>
      [] shape = "opaque" ->
           <<SPEAKER, <<"9">>, <<"8">>, <<"1", ".", "0">>, <<"0", ".", "5">>, <<"7">>, <<"6">>,
             <<"S", "1">>, <<"5">>, <<"4">>>>
      [] shape = "badstart" ->
           <<SPEAKER, <<"x">>, <<"1">>, NotANumber, <<"1", ".", "0">>, NA, NA, <<"S", "0">>, NA>>
      [] shape = "baddur" ->
           <<SPEAKER, <<"x">>, <<"1">>, <<"1", ".", "0">>, <<"x">>, NA, NA, <<"S", "1">>, NA>>
      [] shape = "short" ->
           <<SPEAKER, <<"x">>, <<"1">>, <<"0", ".", "0">>, <<"1", ".", "0">>, NA, NA>>
      [] shape = "comment" -> <<<<"#">>, <<"c">>>>
      [] shape = "blank" -> <<<<" ">>>>
      [] shape = "other" ->
           <<<<"F", "O", "O">>, <<"x">>, <<"1">>, <<"2", ".", "0">>, <<"1", ".", "0">>, NA, NA, <<"S", "1">>, NA>>

Line(shape) == IF shape = "blank" THEN <<" ">> ELSE join(Fields(shape), <<" ">>)

RttmDocs ==
    UNION {{join([i \in 1..k |-> Line(f[i])], NL) \o tail :
                f \in [1..k -> LineShapes], tail \in {<<>>, NL}} : k \in 0..MaxLines}

InitRttm ==
    /\ impl \in Impls
    /\ rttm_content \in RttmDocs
    /\ speaker_labels = NoLabels
    /\ speakers = <<>>
    /\ vtt_content = <<>>
    /\ subtitles = <<>>
    /\ output = <<>>
    /\ raised = "none"
    /\ pc = "parse_rttm"
    /\ time_text = <<>>
    /\ seconds = 0
    /\ mapped_with = <<>>
    /\ Constructed

\* the end of a parse of the speaker-timing document
ParsedRttm(r) ==
    IF r.raised = "none"
    THEN /\ speakers' = r.value
         /\ raised' = raised
         /\ pc' = "parsed_rttm"
    ELSE /\ speakers' = speakers
         /\ raised' = r.raised
         /\ pc' = "failed"

Call_parse_rttm ==
    /\ pc = "parse_rttm"
    /\ impl = "legacy"
    /\ ParsedRttm(parse_rttm(rttm_content))
    /\ UNCHANGED <<time_text, seconds, mapped_with>>
    /\ UNCHANGED <<monitor_vars, pipeline_vars>>
    /\ UNCHANGED <<impl, speaker_labels, vtt_content, rttm_content, subtitles, output>>

Call_RTTMParser_parse ==
    /\ pc = "parse_rttm"
    /\ impl = "engine"
    /\ ParsedRttm(RTTMParser_parse(rttm_content))
    /\ UNCHANGED <<time_text, seconds, mapped_with>>
    /\ UNCHANGED <<monitor_vars, pipeline_vars>>
    /\ UNCHANGED <<impl, speaker_labels, vtt_content, rttm_content, subtitles, output>>

NextRttm ==
    \/ Call_parse_rttm
    \/ Call_RTTMParser_parse

SpecRttm == InitRttm /\ [][NextRttm]_vars

(***************************************************************************)
(* The Time Parser alone, on timestamps of both shapes and on texts with   *)
(* any number of fields, some of them empty or not numbers.                *)
(***************************************************************************)
\* a number below 100 as two digits
TwoDigits(n) == <<DigitChars[(n \div 10) + 1], DigitChars[(n % 10) + 1]>>

Hours == 0..MaxTime

Minutes == {0, 2, 59}

Seconds == {0, 3, 59}

\* the fraction of the seconds field, as written and in milliseconds
Fractions ==
    {[str |-> <<>>, ms |-> 0],
     [str |-> <<".", "5">>, ms |-> 500],
     [str |-> <<".", "2", "5", "0">>, ms |-> 250],
     [str |-> <<".", "1", "2", "5">>, ms |-> 125]}

\* MM:SS[.fff]
Stamp2(m, s, f) == TwoDigits(m) \o <<":">> \o TwoDigits(s) \o f.str

\* HH:MM:SS[.fff]
Stamp3(h, m, s, f) == TwoDigits(h) \o <<":">> \o Stamp2(m, s, f)

ValidStamps ==
    {Stamp2(m, s, f) : <<m, s, f>> \in Minutes \X Seconds \X Fractions}
    \cup {Stamp3(h, m, s, f) : <<h, m, s, f>> \in Hours \X Minutes \X Seconds \X Fractions}

\* a number, a fraction, a word, nothing
FieldPool == {<<"0", "1">>, <<"1", ".", "5">>, <<"x">>, <<>>}

\* texts of up to MaxFields fields, the empty text among them
FieldTexts == {join(f, <<":">>) : f \in SeqsUpTo(FieldPool, MaxFields)}

InitTime ==
    /\ impl \in Impls
    /\ time_text \in ValidStamps \cup FieldTexts
    /\ seconds = 0
    /\ speaker_labels = NoLabels
    /\ vtt_content = <<>>
    /\ rttm_content = <<>>
    /\ speakers = <<>>
    /\ subtitles = <<>>
    /\ output = <<>>
    /\ raised = "none"
    /\ pc = "convert"
    /\ mapped_with = <<>>
    /\ Constructed

\* the end of a conversion: its value, or the exception that left it
Converted(r) ==
    IF r.raised = "none"
    THEN /\ seconds' = r.value
         /\ raised' = raised
         /\ pc' = "converted"
    ELSE /\ seconds' = seconds
         /\ raised' = r.raised
         /\ pc' = "failed"

Call_convert_to_seconds ==
    /\ pc = "convert"
    /\ impl = "legacy"
    /\ Converted(convert_to_seconds(time_text))
    /\ UNCHANGED <<time_text, mapped_with>>
    /\ UNCHANGED <<monitor_vars, pipeline_vars>>
    /\ UNCHANGED <<impl, speaker_labels, vtt_content, rttm_content, speakers, subtitles, output>>

Call_engine_convert_to_seconds ==
    /\ pc = "convert"
    /\ impl = "engine"
    /\ Converted(engine_convert_to_seconds(time_text))
    /\ UNCHANGED <<time_text, mapped_with>>
    /\ UNCHANGED <<monitor_vars, pipeline_vars>>
    /\ UNCHANGED <<impl, speaker_labels, vtt_content, rttm_content, speakers, subtitles, output>>

NextTime ==
    \/ Call_convert_to_seconds
    \/ Call_engine_convert_to_seconds

SpecTime == InitTime /\ [][NextTime]_vars

(***************************************************************************)
(* The Overlap Assigner run again and again over one utterance list, the   *)
(* caller handing it the same turn list or another one.                    *)
(***************************************************************************)
\* one or two blocks with text, each one second long
RunDocs ==
    UNION {{join([i \in 1..k |-> Entry(f[i][1], f[i][2], Rest(i, "text"))], NLNL) :
                f \in [1..k -> Slots]} : k \in 1..2}

\* no turn, or one turn; one turn carries the empty identifier
RunTurnLists ==
    {<<>>} \cup {<<t>> : t \in SlotTurns \cup {Turn(0, 1000, <<>>)}}

InitAssign ==
    /\ impl \in Impls
    /\ vtt_content \in RunDocs
    /\ speakers \in RunTurnLists
    /\ speaker_labels = NoLabels
    /\ rttm_content = <<>>
    /\ subtitles = <<>>
    /\ output = <<>>
    /\ raised = "none"
    /\ pc = "parse_vtt"
    /\ time_text = <<>>
    /\ seconds = 0
    /\ mapped_with = <<>>
    /\ Constructed

\* the caller comes back with a turn list for another run of the assigner
Take_speakers ==
    /\ pc = "format"
    /\ Len(mapped_with) < MaxRuns
    /\ \E list \in RunTurnLists : speakers' = list
    /\ pc' = "map"
    /\ UNCHANGED <<time_text, seconds, mapped_with>>
    /\ UNCHANGED <<monitor_vars, pipeline_vars>>
    /\ UNCHANGED <<impl, speaker_labels, vtt_content, rttm_content, subtitles, output, raised>>

NextAssign ==
    \/ Call_parse_vtt
    \/ Call_VTTParser_parse
    \/ Call_map_speakers_to_subtitles
    \/ Call_SpeakerMapper_map_speakers_to_subtitles
    \/ Take_speakers

SpecAssign == InitAssign /\ [][NextAssign]_vars

(***************************************************************************)
(* System monitor (src/src/monitoring.py).  The caller of the monitor and  *)
(* every monitor thread take their steps one statement at a time; "call"   *)
(* is the statement of start_monitoring or stop_monitoring the caller has  *)
(* reached, loops[t] the statement of _monitor_loop thread t has reached.  *)
(* Wall-clock times are not modelled: join(timeout=2.0) may return while   *)
(* the thread is alive, and an average is an integer quotient.             *)
(***************************************************************************)
\* what process.cpu_percent() or the resident memory in MB may read
Readings == {1, 2}

\* an entry of a sample list: the reading, kept with the loop that took it
Sample(t, v) == [loop |-> t, value |-> v]

\* the value an Optional holds
the(optional) == CHOOSE x \in optional : TRUE

\* a dict without keys
EmptyDict == [x \in {} |-> x]

\* dict.get(key, default)
get(dict, key, default) == IF key \in DOMAIN dict THEN dict[key] ELSE default

RECURSIVE sum(_)
sum(samples) ==
    IF samples = <<>> THEN 0 ELSE Head(samples).value + sum(Tail(samples))

RECURSIVE peak(_)
peak(samples) ==
    IF samples = <<>> THEN 0 ELSE max(Head(samples).value, peak(Tail(samples)))

\* the dict stop_monitoring builds from the two sample lists
Statistics(cpu, memory) ==
    [avg_cpu_percent |-> IF cpu # <<>> THEN sum(cpu) \div Len(cpu) ELSE 0,
     peak_memory_mb |-> IF memory # <<>> THEN peak(memory) ELSE 0,
     avg_memory_mb |-> IF memory # <<>> THEN sum(memory) \div Len(memory) ELSE 0]

Threads == 1..Len(loops)

\* is_alive() of thread t
Alive(t) == loops[t] # "done"

\* start_monitoring up to its first statement that another thread can see:
\* the early return, or the flag set
Enter_start_monitoring ==
    IF monitoring
    THEN UNCHANGED <<monitoring, call>>
    ELSE /\ monitoring' = TRUE
         /\ call' = "clear_cpu"

\* stop_monitoring up to the join: the early return (with {}), or the flag
\* cleared and the caller waiting for the thread
Enter_stop_monitoring ==
    IF ~monitoring
    THEN UNCHANGED <<monitoring, call>>
    ELSE /\ monitoring' = FALSE
         /\ call' = "join"

\* join(timeout=2.0) returns: the thread has ended, or the time is up
Joined == call = "join"

Call_start_monitoring ==
    /\ at = "idle"
    /\ call = "none"
    /\ monitoring \/ Len(loops) < MaxLoops
    /\ Enter_start_monitoring
    /\ UNCHANGED <<monitor_thread, loops, cpu_samples, memory_samples>>
    /\ UNCHANGED <<merge_vars, pipeline_vars>>

\* self.cpu_samples.clear()
Clear_cpu_samples ==
    /\ call = "clear_cpu"
    /\ cpu_samples' = <<>>
    /\ call' = "clear_memory"
    /\ UNCHANGED <<monitoring, monitor_thread, loops, memory_samples>>
    /\ UNCHANGED <<merge_vars, pipeline_vars>>

\* self.memory_samples.clear(); disk_io_samples is never written
Clear_memory_samples ==
    /\ call = "clear_memory"
    /\ memory_samples' = <<>>
    /\ call' = "start_thread"
    /\ UNCHANGED <<monitoring, monitor_thread, loops, cpu_samples>>
    /\ UNCHANGED <<merge_vars, pipeline_vars>>

\* the thread is made and started, and start_monitoring returns
Start_thread ==
    /\ call = "start_thread"
    /\ loops' = Append(loops, "test")
    /\ monitor_thread' = {Len(loops) + 1}
    /\ call' = "none"
    /\ UNCHANGED <<monitoring, cpu_samples, memory_samples>>
    /\ UNCHANGED <<merge_vars, pipeline_vars>>

Call_stop_monitoring ==
    /\ at = "idle"
    /\ call = "none"
    /\ Enter_stop_monitoring
    /\ UNCHANGED <<monitor_thread, loops, cpu_samples, memory_samples>>
    /\ UNCHANGED <<merge_vars, pipeline_vars>>

\* the join is over: Statistics(cpu_samples, memory_samples) is returned
Return_stop_monitoring ==
    /\ at = "idle"
    /\ Joined
    /\ call' = "none"
    /\ UNCHANGED <<monitoring, monitor_thread, loops, cpu_samples, memory_samples>>
    /\ UNCHANGED <<merge_vars, pipeline_vars>>

\* while self.monitoring, reached from the start of the thread or from
\* time.sleep(self.interval), which changes nothing
Loop_test(t) ==
    /\ loops[t] = "test"
    /\ loops' = [loops EXCEPT ![t] = IF monitoring THEN "cpu" ELSE "done"]
    /\ UNCHANGED <<monitoring, monitor_thread, cpu_samples, memory_samples, call>>
    /\ UNCHANGED <<merge_vars, pipeline_vars>>

\* self.cpu_samples.append(process.cpu_percent())
Loop_cpu(t) ==
    /\ loops[t] = "cpu"
    /\ Len(cpu_samples) < MaxSamples
    /\ \E v \in Readings : cpu_samples' = Append(cpu_samples, Sample(t, v))
    /\ loops' = [loops EXCEPT ![t] = "memory"]
    /\ UNCHANGED <<monitoring, monitor_thread, memory_samples, call>>
    /\ UNCHANGED <<merge_vars, pipeline_vars>>

\* self.memory_samples.append(memory_mb)
Loop_memory(t) ==
    /\ loops[t] = "memory"
    /\ Len(memory_samples) < MaxSamples
    /\ \E v \in Readings : memory_samples' = Append(memory_samples, Sample(t, v))
    /\ loops' = [loops EXCEPT ![t] = "test"]
    /\ UNCHANGED <<monitoring, monitor_thread, cpu_samples, call>>
    /\ UNCHANGED <<merge_vars, pipeline_vars>>

\* a reading raises: the except clause breaks the loop
Loop_except(t) ==
    /\ loops[t] \in {"cpu", "memory"}
    /\ loops' = [loops EXCEPT ![t] = "done"]
    /\ UNCHANGED <<monitoring, monitor_thread, cpu_samples, memory_samples, call>>
    /\ UNCHANGED <<merge_vars, pipeline_vars>>

\* a pipeline after construction; the merge engine at rest
InitMonitor ==
    /\ impl = "engine"
    /\ speaker_labels = NoLabels
    /\ vtt_content = <<>>
    /\ rttm_content = <<>>
    /\ speakers = <<>>
    /\ subtitles = <<>>
    /\ output = <<>>
    /\ raised = "none"
    /\ pc = "done"
    /\ time_text = <<>>
    /\ seconds = 0
    /\ mapped_with = <<>>
    /\ Constructed

NextMonitor ==
    \/ Call_start_monitoring
    \/ Clear_cpu_samples
    \/ Clear_memory_samples
    \/ Start_thread
    \/ Call_stop_monitoring
    \/ Return_stop_monitoring
    \/ \E t \in Threads : Loop_test(t)
    \/ \E t \in Threads : Loop_cpu(t)
    \/ \E t \in Threads : Loop_memory(t)
    \/ \E t \in Threads : Loop_except(t)

SpecMonitor == InitMonitor /\ [][NextMonitor]_vars

(***************************************************************************)
(* Performance tracker (src/src/monitoring.py) and audio pipeline          *)
(* (src/src/pipeline.py).  "at" is the statement of process_audio the      *)
(* caller has reached; the stages outside the merge engine (transcriber,   *)
(* diarizer, ChatGPT) are inputs: what they return or raise.  A recorded   *)
(* time is kept as the fact that it was recorded.                          *)
(***************************************************************************)
\* a ProcessingMetrics as start_processing makes it
ProcessingMetrics ==
    [end_time |-> None, stage_times |-> {}, peak_memory_mb |-> 0,
     avg_cpu_percent |-> 0, total_segments |-> 0, total_speakers |-> 0,
     output_length |-> 0, errors |-> <<>>, success |-> TRUE]

\* the dict process_audio starts from; processing_info is laid flat
Result ==
    [vtt_text |-> <<>>, speakers |-> <<>>, merged_text |-> <<>>,
     polished_text |-> None, stages_completed |-> <<>>, errors |-> <<>>,
     performance_metrics |-> None]

\* end_stage(stage_name) after a start_stage that left start_time
end_stage(start_time, metrics, stage_name) ==
    IF start_time = None \/ metrics = None THEN metrics
    ELSE {[the(metrics) EXCEPT !.stage_times = @ \cup {stage_name}]}

add_error(metrics, error_message) ==
    IF metrics = None THEN metrics
    ELSE {[the(metrics) EXCEPT !.errors = Append(@, error_message),
                               !.success = FALSE]}

add_result_stats(metrics, r) ==
    IF metrics = None THEN metrics
    ELSE {[the(metrics) EXCEPT
              !.total_speakers =
                  Cardinality({r.speakers[i].speaker : i \in DOMAIN r.speakers}),
              !.total_segments = Len(r.speakers),
              !.output_length = Len(r.merged_text)]}

\* finish_processing from the return of stop_monitoring to metrics.finish()
finish(metrics, system_stats) ==
    [metrics EXCEPT !.avg_cpu_percent = get(system_stats, "avg_cpu_percent", 0),
                    !.peak_memory_mb = get(system_stats, "peak_memory_mb", 0),
                    !.end_time = {"now"}]

\* _save_metrics: the file keeps its last 1000 records
save_metrics(file, metrics) ==
    LET existing_data == Append(file, metrics)
    IN IF Len(existing_data) > 1000
       THEN SubSeq(existing_data, Len(existing_data) - 999, Len(existing_data))
       ELSE existing_data

\* a stage put first in stages_completed
stage_completed_first(r, stage) ==
    [r EXCEPT !.stages_completed = <<stage>> \o @]

\* result["processing_info"]["stages_completed"].append(stage)
stage_completed(r, stage) ==
    [r EXCEPT !.stages_completed = Append(@, stage)]

\* _merge_transcription_and_speakers
merge_transcription_and_speakers(vtt_text, speaker_segments) ==
    LET subs == VTTParser_parse(vtt_text).value
    IN IF subs = <<>> THEN <<>>
       ELSE OutputFormatter_format_output(
                SpeakerMapper_map_speakers_to_subtitles(subs, speaker_segments),
                speaker_labels)

endswith(s, p) == Len(s) >= Len(p) /\ SubSeq(s, Len(s) - Len(p) + 1, Len(s)) = p

\* the ideographic full stop, a character written by its code point
FULL_STOP == "U+3002"

\* the characters after which _add_basic_punctuation adds nothing; the
\* fullwidth exclamation and question marks are U+FF01 and U+FF1F
Punctuation == {FULL_STOP, "U+FF01", "U+FF1F", ".", ",", "!", "?"}

add_basic_punctuation(text) ==
    IF strip(text) = <<>> THEN text
    ELSE LET t == strip(text)
         IN IF t[Len(t)] \notin Punctuation THEN t \o <<FULL_STOP>> ELSE t

\* the loop of basic_formatting over the lines of the text
RECURSIVE basic_formatting_lines(_)
basic_formatting_lines(lines) ==
    IF lines = <<>> THEN <<>>
    ELSE LET line == strip(Head(lines))
             rest == basic_formatting_lines(Tail(lines))
         IN IF line = <<>> THEN rest
            ELSE IF startswith(line, <<"[">>) /\ endswith(line, <<"]">>)
            THEN <<<<>>, line>> \o rest
            ELSE <<add_basic_punctuation(line)>> \o rest

\* the lines that are not blank
RECURSIVE nonblank(_)
nonblank(lines) ==
    IF lines = <<>> THEN <<>>
    ELSE IF strip(Head(lines)) = <<>> THEN nonblank(Tail(lines))
    ELSE <<Head(lines)>> \o nonblank(Tail(lines))

\* TextProcessor.basic_formatting
basic_formatting(text) ==
    IF strip(text) = <<>> THEN text
    ELSE join(nonblank(split(join(basic_formatting_lines(split(text, NL)), NL), NL)), NL)

\* what a stage returns, or the exception that leaves it: a subclass of
\* Exception, or KeyboardInterrupt, which except Exception lets through
Outcomes(values) ==
    {[raised |-> "none", value |-> v] : v \in values}
        \cup {[raised |-> e, value |-> <<>>] : e \in {"Exception", "KeyboardInterrupt"}}

\* what self.transcriber.transcribe_to_vtt may return.  WhisperTranscriber
\* always writes the header; a blank text is that of a transcriber of
\* another make, set on the pipeline before the call.
VttTexts ==
    {<<" ">>,
     WEBVTT \o NLNL,
     WEBVTT \o NLNL \o Entry(0, 1, Rest(1, "text")) \o NLNL}

\* what self.diarizer.diarize_audio may return
SegmentLists ==
    {<<>>,
     <<Turn(0, 1000, <<"S", "0">>)>>}

\* what polish_text may return for a text: the text itself, or the stripped
\* answer of the API
PolishedTexts(text) == {text, <<"o", "k">>}

Call_process_audio ==
    /\ at \in {"idle", "returned", "raised"}
    /\ call = "none"
    /\ calls < MaxCalls
    /\ calls' = calls + 1
    /\ \E exists \in BOOLEAN :
        IF ~exists
        THEN /\ at' = "raised"
             /\ result' = None
             /\ UNCHANGED <<monitoring, call, current_metrics>>
        ELSE /\ current_metrics' = {ProcessingMetrics}
             /\ Enter_start_monitoring
             /\ result' = {Result}
             /\ at' = "transcription"
    /\ UNCHANGED <<monitor_thread, loops, cpu_samples, memory_samples>>
    /\ UNCHANGED <<stage_start_time, metrics_file, last_result>>
    /\ UNCHANGED merge_vars

\* step 1: _init_transcriber, start_stage, transcribe_to_vtt, end_stage
Call_transcribe_to_vtt ==
    /\ at = "transcription"
    /\ call = "none"
    /\ \E o \in Outcomes(VttTexts) :
        IF o.raised = "none"
        THEN /\ stage_start_time' = None
             /\ current_metrics' =
                    end_stage({"transcription"}, current_metrics, "transcription")
             /\ result' = {stage_completed([the(result) EXCEPT !.vtt_text = o.value],
                                           "transcription")}
             /\ at' = IF strip(o.value) = <<>> THEN "returned" ELSE "diarization"
        ELSE /\ stage_start_time' = {"transcription"}
             /\ at' = IF o.raised = "Exception" THEN "except" ELSE "raised"
             /\ UNCHANGED <<current_metrics, result>>
    /\ UNCHANGED <<metrics_file, last_result, calls>>
    /\ UNCHANGED <<monitor_vars, merge_vars>>

\* step 2: _init_diarizer, start_stage, diarize_audio, end_stage
Call_diarize_audio ==
    /\ at = "diarization"
    /\ call = "none"
    /\ \E o \in Outcomes(SegmentLists) :
        IF o.raised = "none"
        THEN /\ stage_start_time' = None
             /\ current_metrics' =
                    end_stage({"diarization"}, current_metrics, "diarization")
             /\ result' = {stage_completed([the(result) EXCEPT !.speakers = o.value],
                                           "diarization")}
             /\ at' = "merging"
        ELSE /\ stage_start_time' = {"diarization"}
             /\ at' = IF o.raised = "Exception" THEN "except" ELSE "raised"
             /\ UNCHANGED <<current_metrics, result>>
    /\ UNCHANGED <<metrics_file, last_result, calls>>
    /\ UNCHANGED <<monitor_vars, merge_vars>>

\* step 3: start_stage, _merge_transcription_and_speakers, end_stage
Call_merge_transcription_and_speakers ==
    /\ at = "merging"
    /\ call = "none"
    /\ LET r == the(result)
           merged_text == merge_transcription_and_speakers(r.vtt_text, r.speakers)
       IN result' = {stage_completed([r EXCEPT !.merged_text = merged_text], "merging")}
    /\ stage_start_time' = None
    /\ current_metrics' = end_stage({"merging"}, current_metrics, "merging")
    /\ at' = "polishing"
    /\ UNCHANGED <<metrics_file, last_result, calls>>
    /\ UNCHANGED <<monitor_vars, merge_vars>>

\* step 4: polish_text when asked for and there is text, with
\* basic_formatting when it raises PostProcessingError; basic_formatting
\* otherwise
Call_polish_text ==
    /\ at = "polishing"
    /\ call = "none"
    /\ LET r == the(result) IN
       \E use_chatgpt \in BOOLEAN :
        IF use_chatgpt /\ strip(r.merged_text) # <<>>
        THEN \/ \E o \in Outcomes(PolishedTexts(r.merged_text)) :
                 IF o.raised = "none"
                 THEN /\ stage_start_time' = None
                      /\ current_metrics' =
                             end_stage({"postprocessing"}, current_metrics, "postprocessing")
                      /\ result' = {stage_completed([r EXCEPT !.polished_text = {o.value}],
                                                    "chatgpt_polishing")}
                      /\ at' = "finish"
                 ELSE /\ stage_start_time' = {"postprocessing"}
                      /\ at' = IF o.raised = "Exception" THEN "except" ELSE "raised"
                      /\ UNCHANGED <<current_metrics, result>>
             \/ /\ stage_start_time' = None
                /\ current_metrics' =
                       add_error(end_stage({"postprocessing"}, current_metrics,
                                           "postprocessing"),
                                 "PostProcessingError")
                /\ result' = {[r EXCEPT
                                 !.errors = Append(@, "PostProcessingError"),
                                 !.polished_text = {basic_formatting(r.merged_text)}]}
                /\ at' = "finish"
        ELSE /\ result' = {[r EXCEPT !.polished_text = {basic_formatting(r.merged_text)}]}
             /\ at' = "finish"
             /\ UNCHANGED <<stage_start_time, current_metrics>>
    /\ UNCHANGED <<metrics_file, last_result, calls>>
    /\ UNCHANGED <<monitor_vars, merge_vars>>

\* add_result_stats, then finish_processing up to the join of
\* stop_monitoring; finish_processing raises ValueError without metrics
Call_finish_processing ==
    /\ at = "finish"
    /\ call = "none"
    /\ IF current_metrics = None
       THEN /\ at' = "except"
            /\ UNCHANGED <<monitoring, call, current_metrics>>
       ELSE /\ current_metrics' = add_result_stats(current_metrics, the(result))
            /\ Enter_stop_monitoring
            /\ at' = "finishing"
    /\ UNCHANGED <<monitor_thread, loops, cpu_samples, memory_samples>>
    /\ UNCHANGED <<stage_start_time, metrics_file, result, last_result, calls>>
    /\ UNCHANGED merge_vars

\* except Exception: the error is recorded, then finish_processing up to
\* the join of stop_monitoring
Handle_exception ==
    /\ at = "except"
    /\ call = "none"
    /\ result' = {[the(result) EXCEPT !.errors = Append(@, "Exception")]}
    /\ IF current_metrics = None
       THEN /\ at' = "raised"
            /\ UNCHANGED <<monitoring, call, current_metrics>>
       ELSE /\ current_metrics' = add_error(current_metrics, "Exception")
            /\ Enter_stop_monitoring
            /\ at' = "except_finishing"
    /\ UNCHANGED <<monitor_thread, loops, cpu_samples, memory_samples>>
    /\ UNCHANGED <<stage_start_time, metrics_file, last_result, calls>>
    /\ UNCHANGED merge_vars

\* stop_monitoring returns its statistics, or had returned {}; the rest of
\* finish_processing, and process_audio returns the result or raises
\* SpeakerDiartError
Return_finish_processing ==
    /\ at \in {"finishing", "except_finishing"}
    /\ call \in {"join", "none"}
    /\ LET system_stats == IF Joined THEN Statistics(cpu_samples, memory_samples)
                           ELSE EmptyDict
           final_metrics == finish(the(current_metrics), system_stats)
           r == [the(result) EXCEPT !.performance_metrics = {final_metrics}]
       IN /\ metrics_file' = save_metrics(metrics_file, final_metrics)
          /\ result' = {r}
          /\ last_result' = IF at = "finishing" THEN {r} ELSE last_result
    /\ current_metrics' = None
    /\ call' = "none"
    /\ at' = IF at = "finishing" THEN "returned" ELSE "raised"
    /\ UNCHANGED <<monitoring, monitor_thread, loops, cpu_samples, memory_samples>>
    /\ UNCHANGED <<stage_start_time, calls>>
    /\ UNCHANGED merge_vars

\* The monitor thread is started here and left to SpecMonitor to run: its
\* steps change loops and the two sample lists alone, and process_audio
\* reads them only for the two statistics it copies into the metrics.
NextPipeline ==
    \/ Call_process_audio
    \/ Clear_cpu_samples
    \/ Clear_memory_samples
    \/ Start_thread
    \/ Call_transcribe_to_vtt
    \/ Call_diarize_audio
    \/ Call_merge_transcription_and_speakers
    \/ Call_polish_text
    \/ Call_finish_processing
    \/ Handle_exception
    \/ Return_finish_processing

SpecPipeline == InitMonitor /\ [][NextPipeline]_vars

(***************************************************************************)
(* Vocabulary of the claims.                                               *)
(***************************************************************************)
\* the assigner has returned
Assigned == pc \in {"format", "done"}

\* the renderer has returned
Rendered == pc = "done"

\* the time two spans share
Overlap(u, t) ==
    LET lo == IF u.start >= t.start THEN u.start ELSE t.start
        hi == IF u.end <= t.end THEN u.end ELSE t.end
    IN IF hi > lo THEN hi - lo ELSE 0

UtteranceIdx == 1..Len(subtitles)

TurnIdx == 1..Len(speakers)

\* no turn overlaps utterance i more than turn k does
IsMaximal(i, k) ==
    \A j \in TurnIdx : Overlap(subtitles[i], speakers[j]) <= Overlap(subtitles[i], speakers[k])

ZeroOverlap(i) == \A k \in TurnIdx : Overlap(subtitles[i], speakers[k]) = 0

HasSpeaker(i) == subtitles[i].speakers # None

SpeakerOf(i) == CHOOSE x \in subtitles[i].speakers : TRUE

HasText(i) == subtitles[i].text # <<>>

RECURSIVE Flatten(_)
Flatten(ss) == IF ss = <<>> THEN <<>> ELSE Head(ss) \o Flatten(Tail(ss))

RECURSIVE IsSubseq(_, _)
IsSubseq(a, b) ==
    IF a = <<>> THEN TRUE
    ELSE IF b = <<>> THEN FALSE
    ELSE IF Head(a) = Head(b) THEN IsSubseq(Tail(a), Tail(b))
    ELSE IsSubseq(a, Tail(b))

\* a sequence without the elements that repeat their predecessor
RECURSIVE Collapse(_)
Collapse(q) ==
    IF Len(q) <= 1 THEN q
    ELSE IF q[Len(q)] = q[Len(q) - 1] THEN Collapse(SubSeq(q, 1, Len(q) - 1))
    ELSE Collapse(SubSeq(q, 1, Len(q) - 1)) \o <<q[Len(q)]>>

\* the lines of the rendered text
OutputLines == IF output = <<>> THEN <<>> ELSE split(output, NL)

IsMarkerLine(l) == Len(l) >= 2 /\ l[1] = "[" /\ l[Len(l)] = "]"

IsTextLine(l) == ~IsMarkerLine(l)

MarkerLines == SelectSeq(OutputLines, IsMarkerLine)

MarkerOf(i) == marker(display_label(speaker_labels, SpeakerOf(i)))

\* the cursor when the renderer reaches utterance i: the speaker of the
\* nearest assigned utterance before it
CursorAt(i) ==
    LET before == {j \in 1..(i - 1) : HasSpeaker(j)}
    IN IF before = {} THEN NoSpeaker
       ELSE SpeakerOf(CHOOSE j \in before : \A m \in before : m <= j)

MarkerDue(i) == HasSpeaker(i) /\ SpeakerOf(i) # CursorAt(i)

\* the line of the output that is the text of utterance i; the documents
\* of the pipeline give every utterance a text of its own
TextPos(i) == CHOOSE l \in 1..Len(OutputLines) : OutputLines[l] = subtitles[i].text

(***************************************************************************)
(* C1. After the assigner has run, an utterance that overlaps some turn    *)
(* carries the speaker of a turn whose overlap with it is the largest of   *)
(* all turns.                                                              *)
(***************************************************************************)
C1_MaximalOverlap ==
    Assigned =>
        \A i \in UtteranceIdx :
            ~ZeroOverlap(i) =>
                \E k \in TurnIdx :
                    /\ subtitles[i].speakers = {speakers[k].speaker}
                    /\ IsMaximal(i, k)

\* a later turn of another speaker overlaps more than an earlier one, and wins
C1_Witness ==
    /\ Assigned
    /\ \E i \in UtteranceIdx : \E k, j \in TurnIdx :
          /\ k < j
          /\ speakers[k].speaker # speakers[j].speaker
          /\ 0 < Overlap(subtitles[i], speakers[k])
          /\ Overlap(subtitles[i], speakers[k]) < Overlap(subtitles[i], speakers[j])
          /\ subtitles[i].speakers = {speakers[j].speaker}

(***************************************************************************)
(* C2. When several turns share the largest, positive overlap with an      *)
(* utterance, the utterance carries the speaker of the first of them in    *)
(* the turn list, whatever their start times and speakers are.             *)
(***************************************************************************)
C2_TieBreakFirst ==
    Assigned =>
        \A i \in UtteranceIdx : \A k, j \in TurnIdx :
            ( /\ k < j
              /\ ~ZeroOverlap(i)
              /\ IsMaximal(i, k)
              /\ IsMaximal(i, j)
              /\ \A m \in 1..(k - 1) : ~IsMaximal(i, m) )
            => subtitles[i].speakers = {speakers[k].speaker}

\* two speakers tie and the first in the list starts later
C2_Witness ==
    /\ Assigned
    /\ \E i \in UtteranceIdx : \E k, j \in TurnIdx :
          /\ k < j
          /\ ~ZeroOverlap(i)
          /\ IsMaximal(i, k)
          /\ IsMaximal(i, j)
          /\ speakers[k].speaker # speakers[j].speaker
          /\ speakers[k].start > speakers[j].start
          /\ subtitles[i].speakers = {speakers[k].speaker}

(***************************************************************************)
(* C3. After the pipeline has run, every utterance that overlaps no turn   *)
(* is unassigned; the marker lines of the output are those of the          *)
(* overlapping utterances alone, one per change of speaker among them;     *)
(* and with an empty turn list the output is the utterance texts joined    *)
(* by newlines.                                                            *)
(***************************************************************************)
C3_ZeroOverlapUnassigned ==
    Rendered =>
        /\ \A i \in UtteranceIdx : ZeroOverlap(i) => subtitles[i].speakers = None
        /\ LET over == SelectSeq([i \in UtteranceIdx |-> i], LAMBDA i : ~ZeroOverlap(i))
               spk == [n \in 1..Len(over) |-> SpeakerOf(over[n])]
               heads == Collapse(spk)
           IN /\ \A n \in 1..Len(over) : HasSpeaker(over[n])
              /\ MarkerLines
                   = [n \in 1..Len(heads) |-> marker(display_label(speaker_labels, heads[n]))]
        /\ speakers = <<>> => output = join([i \in UtteranceIdx |-> subtitles[i].text], NL)

(***************************************************************************)
(* C4. The rendered text is, utterance by utterance, a marker line exactly *)
(* when the utterance has a speaker that differs from the cursor, then     *)
(* the text; the cursor is the speaker of the nearest assigned utterance   *)
(* before, so an unassigned utterance neither emits a marker nor moves     *)
(* the cursor.                                                             *)
(***************************************************************************)
C4_MarkerRule ==
    Rendered =>
        output = join(Flatten([i \in UtteranceIdx |->
                          (IF MarkerDue(i) THEN <<MarkerOf(i)>> ELSE <<>>)
                          \o (IF HasText(i) THEN <<subtitles[i].text>> ELSE <<>>)]), NL)

\* speaker, unassigned, the same speaker again: one marker in all
C4_Witness ==
    /\ Rendered
    /\ Len(subtitles) = 3
    /\ HasSpeaker(1) /\ ~HasSpeaker(2) /\ HasSpeaker(3)
    /\ SpeakerOf(1) = SpeakerOf(3)
    /\ HasText(2)
    /\ Len(MarkerLines) = 1

(***************************************************************************)
(* C5. The rendered text without its marker lines is the non-empty         *)
(* utterance texts, each once, in utterance order.                         *)
(***************************************************************************)
C5_RoundTrip ==
    Rendered =>
        SelectSeq(OutputLines, IsTextLine)
            = Flatten([i \in UtteranceIdx |->
                          IF HasText(i) THEN split(subtitles[i].text, NL) ELSE <<>>])

\* three texts under two markers, one of them of an unassigned utterance
C5_Witness ==
    /\ Rendered
    /\ Len(subtitles) = 3
    /\ \A i \in UtteranceIdx : HasText(i)
    /\ \E i \in UtteranceIdx : ~HasSpeaker(i)
    /\ Len(MarkerLines) = 2

(***************************************************************************)
(* C6. Utterances i < j that carry one speaker, as does every utterance    *)
(* between them, share one marker: no marker line lies between their       *)
(* texts and the nearest marker line above the text of i is that           *)
(* speaker's.  There are no more marker lines than utterances whose        *)
(* speaker differs from that of the utterance before.                      *)
(***************************************************************************)
C6_SharedMarker ==
    Rendered =>
        /\ \A i, j \in UtteranceIdx :
              ( /\ i < j
                /\ \A m \in i..j : HasSpeaker(m) /\ SpeakerOf(m) = SpeakerOf(i)
                /\ HasText(i) /\ HasText(j) )
              => LET above == {l \in 1..(TextPos(i) - 1) : IsMarkerLine(OutputLines[l])}
                 IN /\ \A l \in (TextPos(i) + 1)..(TextPos(j) - 1) : IsTextLine(OutputLines[l])
                    /\ TextPos(i) < TextPos(j)
                    /\ above # {}
                    /\ OutputLines[CHOOSE l \in above : \A m \in above : m <= l] = MarkerOf(i)
        /\ Len(MarkerLines)
             <= Cardinality({k \in UtteranceIdx :
                    HasSpeaker(k) /\ (k = 1 \/ subtitles[k - 1].speakers # subtitles[k].speakers)})

\* three utterances of one speaker under a single marker
C6_Witness ==
    /\ Rendered
    /\ Len(subtitles) = 3
    /\ \A i \in UtteranceIdx : HasSpeaker(i) /\ SpeakerOf(i) = SpeakerOf(1) /\ HasText(i)
    /\ Len(OutputLines) = 4
    /\ OutputLines[1] = MarkerOf(1)

(***************************************************************************)
(* Vocabulary of the parser claims: the blocks and lines of the documents. *)
(***************************************************************************)
VttParsed == pc \notin {"parse_vtt"}

RttmParsed == pc \notin {"parse_rttm"}

\* the blocks of a subtitle document
BlocksOf(doc) == IF doc = <<>> THEN <<>> ELSE split(doc, NLNL)

FirstLine(b) == split(b, NL)[1]

\* the lines after the first, joined and trimmed
TextOf(b) == strip(join(Tail(split(b, NL)), NL))

\* the two timestamps of the first line, when it has the two
Stamps(b) == split(FirstLine(b), SEPARATOR)

TimeAccepted(stamp) == convert_to_seconds(strip(stamp)).raised = "none"

\* a qualifying block: its first line is two timestamps around the separator
Qualifies(b) == Len(Stamps(b)) = 2

GoodStamps(b) == Qualifies(b) /\ TimeAccepted(Stamps(b)[1]) /\ TimeAccepted(Stamps(b)[2])

BadStamps(b) == Qualifies(b) /\ ~GoodStamps(b)

\* a good timestamp line with no text after it, or only whitespace
BlankEntry(b) == GoodStamps(b) /\ TextOf(b) = <<>>

WellFormed(b) == GoodStamps(b) /\ TextOf(b) # <<>>

UtteranceOf(b) ==
    Subtitle(convert_to_seconds(strip(Stamps(b)[1])).value,
             convert_to_seconds(strip(Stamps(b)[2])).value, TextOf(b))

\* the utterances of the well-formed blocks, in document order
WellFormedUtterances(doc) ==
    LET wf == SelectSeq(BlocksOf(doc), WellFormed)
    IN [n \in 1..Len(wf) |-> UtteranceOf(wf[n])]

CountOf(q, Test(_)) == Len(SelectSeq(q, Test))

\* the document without its blank entries
WithoutBlankEntries(doc) ==
    join(SelectSeq(BlocksOf(doc), LAMBDA b : ~BlankEntry(b)), NLNL)

\* parse -> assign -> render of a document, with the turn list and the
\* labels of the state
Pipeline(doc) ==
    IF impl = "legacy"
    THEN format_output(map_speakers_to_subtitles(parse_vtt(doc).value, speakers))
    ELSE OutputFormatter_format_output(
             SpeakerMapper_map_speakers_to_subtitles(VTTParser_parse(doc).value, speakers),
             speaker_labels)

\* the lines of a speaker-timing document that are neither blank nor comments
RecordLines(doc) ==
    SelectSeq(splitlines(doc), LAMBDA l : strip(l) # <<>> /\ ~startswith(strip(l), <<"#">>))

Numeric(field) == float(field).raised = "none"

\* fewer than 8 fields, or a start or a duration that is no number
Malformed(l) ==
    LET parts == split_ws(l)
    IN Len(parts) < 8 \/ ~Numeric(parts[4]) \/ ~Numeric(parts[5])

ValidSpeakerLine(l) == ~Malformed(l) /\ split_ws(l)[1] = SPEAKER

TurnOf(l) ==
    LET parts == split_ws(l)
    IN Turn(float(parts[4]).value, float(parts[4]).value + float(parts[5]).value, parts[8])

ValidTurns(doc) ==
    LET ok == SelectSeq(RecordLines(doc), ValidSpeakerLine)
    IN [n \in 1..Len(ok) |-> TurnOf(ok[n])]

(***************************************************************************)
(* C7. Every utterance the parser returns has a text that is not empty     *)
(* after trimming, and a document whose blocks all have good timestamp     *)
(* lines parses without error to as many utterances as it has blocks with  *)
(* text: a block without text gives no utterance.                          *)
(***************************************************************************)
C7_NoEmptyText ==
    VttParsed =>
        /\ \A i \in UtteranceIdx : strip(subtitles[i].text) # <<>>
        /\ (\A n \in 1..Len(BlocksOf(vtt_content)) : GoodStamps(BlocksOf(vtt_content)[n]))
              => /\ raised = "none"
                 /\ Len(subtitles) = CountOf(BlocksOf(vtt_content), WellFormed)

(***************************************************************************)
(* C8. The output of parse -> assign -> render is the output for the       *)
(* document without its blank entries.                                     *)
(***************************************************************************)
C8_BlankEntryNoEffect ==
    Rendered => output = Pipeline(WithoutBlankEntries(vtt_content))

(***************************************************************************)
(* C9. When a qualifying block has a timestamp the Time Parser rejects,    *)
(* the parse does not fail, the block gives no utterance, and the          *)
(* well-formed blocks give theirs in document order.                       *)
(***************************************************************************)
C9_BadTimestampSkipped ==
    VttParsed =>
        ( (\E n \in 1..Len(BlocksOf(vtt_content)) : BadStamps(BlocksOf(vtt_content)[n]))
          => /\ raised = "none"
             /\ IsSubseq(WellFormedUtterances(vtt_content), subtitles)
             /\ Len(subtitles) <= Len(BlocksOf(vtt_content))
                                    - CountOf(BlocksOf(vtt_content), BadStamps) )

(***************************************************************************)
(* C10. When a line has fewer than 8 fields or a start or duration that    *)
(* is no number, the parse does not fail, the line gives no turn, and the  *)
(* valid SPEAKER lines give theirs in document order.                      *)
(***************************************************************************)
C10_BadLineSkipped ==
    RttmParsed =>
        ( (\E n \in 1..Len(RecordLines(rttm_content)) : Malformed(RecordLines(rttm_content)[n]))
          => /\ raised = "none"
             /\ IsSubseq(ValidTurns(rttm_content), speakers)
             /\ Len(speakers) <= Len(RecordLines(rttm_content))
                                   - CountOf(RecordLines(rttm_content), Malformed) )

(***************************************************************************)
(* Vocabulary of the Time Parser claims.                                   *)
(***************************************************************************)
TimeParsed == pc \in {"converted", "failed"}

\* a field that reads as a number: digits, with at most one point
NumericField(f) ==
    /\ f # <<>>
    /\ \A i \in 1..Len(f) : IsDigit(f[i]) \/ f[i] = "."
    /\ Cardinality({i \in 1..Len(f) : f[i] = "."}) <= 1
    /\ \E i \in 1..Len(f) : IsDigit(f[i])

FieldsOf(text) == split(text, <<":">>)

\* the inputs the Time Parser has to refuse: the empty text, a field count
\* other than 2 or 3, a field that is no number
Refused(text) ==
    \/ text = <<>>
    \/ Len(FieldsOf(text)) \notin {2, 3}
    \/ \E i \in 1..Len(FieldsOf(text)) : ~NumericField(FieldsOf(text)[i])

(***************************************************************************)
(* C11. The Time Parser accepts every timestamp MM:SS[.fff] and            *)
(* HH:MM:SS[.fff] and returns minutes*60 + seconds, with hours*3600 added  *)
(* for the three-field shape (in milliseconds).                            *)
(***************************************************************************)
C11_TimeValue ==
    TimeParsed =>
        /\ \A m \in Minutes, s \in Seconds, f \in Fractions :
              time_text = Stamp2(m, s, f)
                  => raised = "none" /\ seconds = 60000 * m + 1000 * s + f.ms
        /\ \A h \in Hours, m \in Minutes, s \in Seconds, f \in Fractions :
              time_text = Stamp3(h, m, s, f)
                  => raised = "none" /\ seconds = 3600000 * h + 60000 * m + 1000 * s + f.ms

\* 01:02:03.125 has been read as 3723.125 seconds
C11_Witness ==
    /\ TimeParsed
    /\ time_text = <<"0", "1", ":", "0", "2", ":", "0", "3", ".", "1", "2", "5">>
    /\ raised = "none"
    /\ seconds = 3723125

(***************************************************************************)
(* C12. For the empty text, a text with a field count other than 2 or 3,   *)
(* or a text with a field that is no number, the Time Parser returns no    *)
(* value and fails with FileFormatError, no other exception.               *)
(***************************************************************************)
C12_TimeFailure ==
    TimeParsed => (Refused(time_text) => pc = "failed" /\ raised = "FileFormatError")

(***************************************************************************)
(* Vocabulary of the Speaker Turn Parser claims.                           *)
(***************************************************************************)
\* the parser of the implementation at hand
ParseRttm(doc) == IF impl = "legacy" THEN parse_rttm(doc) ELSE RTTMParser_parse(doc)

\* the turns of the lines with 8 fields or more and numbers in fields 4 and
\* 5, whatever their first field
WellFormedTurns(doc) ==
    LET ok == SelectSeq(RecordLines(doc), LAMBDA l : ~Malformed(l))
    IN [n \in 1..Len(ok) |-> TurnOf(ok[n])]

\* a line of 8 fields or more with fields 2, 3, 6 and 7 replaced and
\* fields 9 and beyond removed
NeutralLine(l) ==
    LET parts == split_ws(l)
    IN IF Len(parts) < 8 THEN l
       ELSE join(<<parts[1], NA, NA, parts[4], parts[5], NA, NA, parts[8]>>, <<" ">>)

NeutralDoc(doc) ==
    LET ls == split(doc, NL)
    IN join([n \in 1..Len(ls) |-> NeutralLine(ls[n])], NL)

(***************************************************************************)
(* C13. When the parse returns, the turns are those of the lines that      *)
(* have 8 fields or more, SPEAKER as first field and numbers in fields 4   *)
(* and 5, one turn for each such line and none for any other line.         *)
(***************************************************************************)
C13_RecordTest ==
    (RttmParsed /\ raised = "none") => speakers = ValidTurns(rttm_content)

(***************************************************************************)
(* C14. Every turn returned is that of a line: start = field 4, end =      *)
(* field 4 + field 5, speaker = field 8, the turns of the valid SPEAKER    *)
(* lines all being there; and the result is the same when fields 2, 3, 6,  *)
(* 7 are replaced and fields 9 and beyond removed.                         *)
(***************************************************************************)
C14_TurnFields ==
    (RttmParsed /\ raised = "none") =>
        /\ IsSubseq(ValidTurns(rttm_content), speakers)
        /\ IsSubseq(speakers, WellFormedTurns(rttm_content))
        /\ ParseRttm(NeutralDoc(rttm_content)) = [raised |-> "none", value |-> speakers]

\* a line with numbers in its fields 2, 3, 6, 7, 9 and 10 gave the turn of
\* its fields 4, 5 and 8
C14_Witness ==
    /\ RttmParsed
    /\ raised = "none"
    /\ rttm_content = Line("opaque") \o NL \o Line("turn0")
    /\ speakers = <<Turn(1000, 1500, <<"S", "1">>), Turn(0, 1000, <<"S", "0">>)>>

(***************************************************************************)
(* Vocabulary of the assigner claims.                                      *)
(***************************************************************************)
\* a step of the assigner
AssignStep == pc = "map" /\ pc' = "format"

\* the number of runs of the assigner so far
Runs == Len(mapped_with)

\* the assigner is about to run on the turn list of its last run
SameTurnsAgain == Runs >= 1 /\ mapped_with[Runs] = speakers

(***************************************************************************)
(* C15. A run of the assigner on the turn list of the run before leaves    *)
(* the assigned speaker of every utterance as that run left it.            *)
(***************************************************************************)
C15_Idempotent ==
    [][(AssignStep /\ SameTurnsAgain)
          => /\ Len(subtitles') = Len(subtitles)
             /\ \A i \in UtteranceIdx : subtitles'[i].speakers = subtitles[i].speakers]_vars

\* two runs on one turn list, which gives a speaker to one utterance and
\* none to the other
C15_Witness ==
    /\ pc = "format"
    /\ Runs = 2
    /\ mapped_with[1] = mapped_with[2]
    /\ Len(subtitles) = 2
    /\ HasSpeaker(1) /\ ~HasSpeaker(2)

(***************************************************************************)
(* C16. A run of the assigner leaves the turn list as it was (length,      *)
(* order, every start, end and speaker), and the utterance list too but    *)
(* for the assigned-speaker fields: same length, same order, same start,   *)
(* end and text of every utterance.                                        *)
(***************************************************************************)
C16_Frame ==
    [][AssignStep
          => /\ speakers' = speakers
             /\ Len(subtitles') = Len(subtitles)
             /\ \A i \in UtteranceIdx :
                   /\ subtitles'[i].start = subtitles[i].start
                   /\ subtitles'[i].end = subtitles[i].end
                   /\ subtitles'[i].text = subtitles[i].text]_vars

\* the assigner has run on three utterances and two turns, and gave a
\* speaker to one utterance and none to another
C16_Witness ==
    /\ Assigned
    /\ Len(subtitles) = 3
    /\ Len(speakers) = 2
    /\ \E i, j \in UtteranceIdx : HasSpeaker(i) /\ ~HasSpeaker(j)

(***************************************************************************)
(* C17. After a run of the assigner, whatever runs came before, every      *)
(* utterance is unassigned or carries the identifier of a turn of the turn *)
(* list of this run, and that identifier is not the empty string.          *)
(***************************************************************************)
C17_AssignedFromTurns ==
    pc = "format" =>
        \A i \in UtteranceIdx :
            \/ subtitles[i].speakers = None
            \/ /\ \E k \in TurnIdx : subtitles[i].speakers = {speakers[k].speaker}
               /\ subtitles[i].speakers # {<<>>}

(***************************************************************************)
(* Vocabulary of the empty-input claim.                                    *)
(***************************************************************************)
\* the parser and the renderer of the implementation at hand
ParseVtt(doc) == IF impl = "legacy" THEN parse_vtt(doc) ELSE VTTParser_parse(doc)

Render(subs) ==
    IF impl = "legacy" THEN format_output(subs)
    ELSE OutputFormatter_format_output(subs, speaker_labels)

\* a subtitle document without a block that has good timestamps and a text
NoValidEntry(doc) == CountOf(BlocksOf(doc), WellFormed) = 0

\* a speaker-timing document without a valid SPEAKER line
NoValidLine(doc) == ValidTurns(doc) = <<>>

Empty == [raised |-> "none", value |-> <<>>]

(***************************************************************************)
(* C18. The parse of a subtitle document without valid entry returns the   *)
(* empty utterance list and does not raise; so does the parse of a         *)
(* speaker-timing document without valid line, with the empty turn list;   *)
(* and the empty utterance list renders as the empty string.               *)
(***************************************************************************)
C18_EmptyNotError ==
    /\ (VttParsed /\ NoValidEntry(vtt_content)) => (raised = "none" /\ subtitles = <<>>)
    /\ NoValidLine(rttm_content) => ParseRttm(rttm_content) = Empty
    /\ Render(<<>>) = <<>>

(***************************************************************************)
(* C19. On the utterances of a parse and any turn list, turns out of       *)
(* order, without duration or apart from every utterance included, the     *)
(* assigner and the renderer each have a step to take and end without an   *)
(* exception, and every overlap the assigner computes is 0 or more.        *)
(***************************************************************************)
C19_Total ==
    /\ \A i \in UtteranceIdx : \A k \in TurnIdx :
          overlap_duration(subtitles[i], speakers[k]) >= 0
    /\ pc = "map" =>
          ENABLED (Call_map_speakers_to_subtitles \/ Call_SpeakerMapper_map_speakers_to_subtitles)
    /\ pc = "format" =>
          ENABLED (Call_format_output \/ Call_OutputFormatter_format_output)
    /\ pc \in {"format", "done"} => raised = "none"

\* rendered without exception: a turn without duration listed before an
\* earlier turn, and an utterance that meets neither
C19_Witness ==
    /\ Rendered
    /\ raised = "none"
    /\ Len(speakers) = 2
    /\ speakers[1].start = speakers[1].end
    /\ speakers[2].start < speakers[1].start
    /\ \E i \in UtteranceIdx :
          /\ speakers[2].end <= subtitles[i].start
          /\ ZeroOverlap(i)
          /\ ~HasSpeaker(i)

(***************************************************************************)
(* Vocabulary of the header claim.                                         *)
(***************************************************************************)
\* the document behind a leading block made of the line WEBVTT
WithHeader(doc) == WEBVTT \o NLNL \o doc

(***************************************************************************)
(* C20. The parse of a document gives what the parse of the same document  *)
(* behind a leading WEBVTT block gives: the same utterances in the same    *)
(* order, or the same failure.                                             *)
(***************************************************************************)
C20_HeaderIgnored ==
    VttParsed => ParseVtt(WithHeader(vtt_content)) = [raised |-> raised, value |-> subtitles]

\* a document with the header has been parsed to the two utterances that
\* the document without it gives
C20_Witness ==
    /\ VttParsed
    /\ raised = "none"
    /\ Len(subtitles) = 2
    /\ \E doc \in ParseDocs :
          /\ vtt_content = WithHeader(doc)
          /\ ~startswith(doc, WEBVTT)
          /\ ParseVtt(doc).value = subtitles

(***************************************************************************)
(* Vocabulary of the entry claims.                                         *)
(***************************************************************************)
LinesOf(b) == split(b, NL)

\* a line that is the separator between two timestamps
SeparatorLine(l) ==
    /\ Len(split(l, SEPARATOR)) = 2
    /\ TimeAccepted(split(l, SEPARATOR)[1])
    /\ TimeAccepted(split(l, SEPARATOR)[2])

HasSeparatorLine(b) == \E n \in 1..Len(LinesOf(b)) : SeparatorLine(LinesOf(b)[n])

\* the blocks with a separator line have it as first line, and no first
\* line has a timestamp the Time Parser rejects
EntriesLeadWithStamps(doc) ==
    \A n \in 1..Len(BlocksOf(doc)) :
        /\ HasSeparatorLine(BlocksOf(doc)[n]) => SeparatorLine(FirstLine(BlocksOf(doc)[n]))
        /\ ~BadStamps(BlocksOf(doc)[n])

\* the utterances of the blocks whose first line is a separator line, with
\* or without text, in document order
EntryUtterances(doc) ==
    LET en == SelectSeq(BlocksOf(doc), LAMBDA b : SeparatorLine(FirstLine(b)))
    IN [n \in 1..Len(en) |-> UtteranceOf(en[n])]

(***************************************************************************)
(* C21. On a document whose separator lines are first lines of their       *)
(* blocks, the parse returns; every utterance is that of a block with a    *)
(* separator line, start and end being its two timestamps and the text     *)
(* its other lines joined and trimmed; every such block with a text gives  *)
(* its utterance; a block without separator line gives none.               *)
(***************************************************************************)
C21_EntryQualification ==
    (VttParsed /\ EntriesLeadWithStamps(vtt_content)) =>
        /\ raised = "none"
        /\ IsSubseq(WellFormedUtterances(vtt_content), subtitles)
        /\ IsSubseq(subtitles, EntryUtterances(vtt_content))

(***************************************************************************)
(* Vocabulary of the marker claims.                                        *)
(***************************************************************************)
OutputIdx == 1..Len(OutputLines)

\* the marker line above line l that is nearest to it, 0 when there is none
MarkerAbove(l) ==
    LET above == {m \in 1..(l - 1) : IsMarkerLine(OutputLines[m])}
    IN IF above = {} THEN 0 ELSE CHOOSE m \in above : \A n \in above : n <= m

(***************************************************************************)
(* C22. In the output of parse -> assign -> render every marker line has a *)
(* next line, which is the text of the utterance the marker was emitted    *)
(* for: no marker line follows a marker line and none ends the output.     *)
(***************************************************************************)
C22_MarkerThenText ==
    Rendered =>
        \A l \in OutputIdx :
            IsMarkerLine(OutputLines[l]) =>
                /\ l < Len(OutputLines)
                /\ IsTextLine(OutputLines[l + 1])
                /\ \E i \in UtteranceIdx :
                      /\ MarkerDue(i)
                      /\ OutputLines[l] = MarkerOf(i)
                      /\ OutputLines[l + 1] = subtitles[i].text

(***************************************************************************)
(* C23. Every marker line of the output is "[" + identifier + "]" for the  *)
(* speaker identifier assigned to the utterance whose text is the next     *)
(* line, and the texts of two utterances with different identifiers stand  *)
(* under markers of different text.                                        *)
(***************************************************************************)
C23_MarkerContent ==
    Rendered =>
        /\ \A l \in OutputIdx :
              IsMarkerLine(OutputLines[l]) =>
                  /\ l < Len(OutputLines)
                  /\ \E i \in UtteranceIdx :
                        /\ HasSpeaker(i)
                        /\ OutputLines[l + 1] = subtitles[i].text
                        /\ OutputLines[l] = marker(SpeakerOf(i))
        /\ \A i, j \in UtteranceIdx :
              ( /\ HasSpeaker(i) /\ HasSpeaker(j)
                /\ HasText(i) /\ HasText(j)
                /\ SpeakerOf(i) # SpeakerOf(j) )
              => /\ MarkerAbove(TextPos(i)) # 0
                 /\ MarkerAbove(TextPos(j)) # 0
                 /\ OutputLines[MarkerAbove(TextPos(i))] # OutputLines[MarkerAbove(TextPos(j))]

(***************************************************************************)
(* Vocabulary of the relational assigner claims.                           *)
(***************************************************************************)
\* the assigner of the implementation at hand
AssignOf(subs, list) ==
    IF impl = "legacy" THEN map_speakers_to_subtitles(subs, list)
    ELSE SpeakerMapper_map_speakers_to_subtitles(subs, list)

\* the utterances with no speaker assigned
Fresh(subs) == [i \in 1..Len(subs) |-> [subs[i] EXCEPT !.speakers = None]]

\* the orders in which a list can be given
Orders(list) ==
    {[i \in 1..Len(list) |-> list[p[i]]] :
        p \in {q \in [1..Len(list) -> 1..Len(list)] :
                  \A a, b \in 1..Len(list) : q[a] = q[b] => a = b}}

\* the turns of largest overlap with utterance i are all of one speaker
SingleSpeakerMax(i) ==
    Cardinality({speakers[k].speaker : k \in {m \in TurnIdx : IsMaximal(i, m)}}) = 1

(***************************************************************************)
(* C24. An utterance whose largest overlap is attained by turns of one     *)
(* speaker alone is assigned the same speaker, or none, whatever the order *)
(* in which the turns are given.                                           *)
(***************************************************************************)
C24_TurnOrderIndependent ==
    Assigned =>
        \A i \in UtteranceIdx :
            SingleSpeakerMax(i) =>
                \A list \in Orders(speakers) :
                    AssignOf(Fresh(subtitles), list)[i].speakers = subtitles[i].speakers

\* the later of two turns is listed first, the other one overlaps more and
\* gives its speaker
C24_Witness ==
    /\ Assigned
    /\ Len(speakers) = 2
    /\ speakers[1].start > speakers[2].start
    /\ speakers[1].speaker # speakers[2].speaker
    /\ \E i \in UtteranceIdx :
          /\ 0 < Overlap(subtitles[i], speakers[1])
          /\ Overlap(subtitles[i], speakers[1]) < Overlap(subtitles[i], speakers[2])
          /\ SingleSpeakerMax(i)
          /\ subtitles[i].speakers = {speakers[2].speaker}

(***************************************************************************)
(* C25. When the parse returns, the k-th utterance is that of the k-th     *)
(* block that is a valid entry with a text, whatever the start times of    *)
(* the blocks: as many utterances as such blocks, in document order.       *)
(***************************************************************************)
C25_DocumentOrder ==
    (VttParsed /\ raised = "none") => subtitles = WellFormedUtterances(vtt_content)

(***************************************************************************)
(* C26. After a run of the assigner, whatever runs came before, every      *)
(* utterance carries what a run on the same utterances with no speaker     *)
(* assigned gives for the turn list of this run; an utterance that         *)
(* overlaps no turn of this list, or any utterance when the list is        *)
(* empty, is unassigned.                                                   *)
(***************************************************************************)
C26_NoStaleAssignment ==
    pc = "format" =>
        /\ \A i \in UtteranceIdx :
              subtitles[i].speakers = AssignOf(Fresh(subtitles), speakers)[i].speakers
        /\ \A i \in UtteranceIdx : ZeroOverlap(i) => ~HasSpeaker(i)

(***************************************************************************)
(* C27. On utterances with no speaker assigned, and any turn list, the     *)
(* assigner of src/merge.py and the assigner of src/src/merge.py leave the *)
(* same speaker, or none, on every utterance, ties included; it is what    *)
(* the run of either has left.                                             *)
(***************************************************************************)
C27_AssignersAgree ==
    Assigned =>
        /\ map_speakers_to_subtitles(Fresh(subtitles), speakers)
             = SpeakerMapper_map_speakers_to_subtitles(Fresh(subtitles), speakers)
        /\ Runs = 1 =>
              subtitles = SpeakerMapper_map_speakers_to_subtitles(Fresh(subtitles), speakers)

\* two speakers tie on an utterance: the run has left the speaker of the
\* first turn, and so does the assigner of src/merge.py
C27_Witness ==
    /\ Assigned
    /\ Runs = 1
    /\ Len(speakers) = 2
    /\ speakers[1].speaker # speakers[2].speaker
    /\ \E i \in UtteranceIdx :
          /\ 0 < Overlap(subtitles[i], speakers[1])
          /\ Overlap(subtitles[i], speakers[1]) = Overlap(subtitles[i], speakers[2])
          /\ subtitles[i].speakers = {speakers[1].speaker}
          /\ map_speakers_to_subtitles(Fresh(subtitles), speakers)[i].speakers
               = {speakers[1].speaker}

(***************************************************************************)
(* Vocabulary of the claims on the tracker, the pipeline and the monitor.  *)
(***************************************************************************)
\* the call of process_audio has returned or raised
Ended == at \in {"returned", "raised"}

\* the call of process_audio went through start_processing
Tracked == result # None

StageOrder == <<"transcription", "diarization", "merging", "chatgpt_polishing">>

IsPrefix(a, b) == Len(a) <= Len(b) /\ SubSeq(b, 1, Len(a)) = a

Recorded(stage) ==
    \E i \in DOMAIN the(result).stages_completed :
        the(result).stages_completed[i] = stage

\* thread t is in the body of the while of _monitor_loop
Appending(t) == loops[t] \in {"cpu", "memory"}

\* the samples the two lists hold
Samples ==
    {cpu_samples[i] : i \in DOMAIN cpu_samples}
        \cup {memory_samples[i] : i \in DOMAIN memory_samples}

\* the step in which stop_monitoring computes its statistics
ComputesStatistics == Joined /\ call' = "none"

(***************************************************************************)
(* C28. A call of process_audio that went through start_processing ends,   *)
(* by return or by exception, with the monitor not monitoring, with        *)
(* current_metrics None and with the metrics of finish_processing in its   *)
(* result; and finish_processing runs once per call: the metrics file      *)
(* takes a record in the step that ends a call and in no other.            *)
(***************************************************************************)
C28_TrackingClosed ==
    /\ [](Ended /\ Tracked =>
            /\ ~monitoring
            /\ current_metrics = None
            /\ the(result).performance_metrics # None)
    /\ [][metrics_file' # metrics_file =>
            /\ ~Ended /\ Ended'
            /\ Len(metrics_file') = Len(metrics_file) + 1]_vars

(***************************************************************************)
(* C29. stages_completed is at all times a prefix of transcription,        *)
(* diarization, merging, chatgpt_polishing, so that merging is recorded    *)
(* with transcription and diarization before it; and a call that has       *)
(* returned with merging recorded has a polished_text that is not None.    *)
(***************************************************************************)
C29_StageOrder ==
    Tracked =>
        /\ IsPrefix(the(result).stages_completed, StageOrder)
        /\ Recorded("merging") =>
              /\ the(result).stages_completed[1] = "transcription"
              /\ the(result).stages_completed[2] = "diarization"
              /\ the(result).stages_completed[3] = "merging"
        /\ (at = "returned" /\ Recorded("merging")) =>
              the(result).polished_text # None

\* a call returned with the four stages recorded and the text of the API
C29_Witness ==
    /\ Tracked
    /\ at = "returned"
    /\ the(result).stages_completed = StageOrder
    /\ the(result).polished_text = {<<"o", "k">>}

(***************************************************************************)
(* C30. At no time are two monitor threads in the body of the sampling     *)
(* loop, and the statistics stop_monitoring computes count samples of the  *)
(* thread of the latest start_monitoring only.                             *)
(***************************************************************************)
C30_SingleSamplingLoop ==
    /\ [](Cardinality({t \in Threads : Appending(t)}) <= 1)
    /\ [][ComputesStatistics =>
            \A s \in Samples : {s.loop} = monitor_thread]_vars

====
